---- MODULE Spec2Model ----
(***************************************************************************)
(* A model of the cards_to_contacts pipeline: card segmentation and the    *)
(* multi-pass OCR of cards_to_contacts/ocr.py, the upload loop of          *)
(* cards_to_contacts/app.py, and the text-to-contact parser of             *)
(* cards_to_contacts/parser.py with the Contact validators of              *)
(* cards_to_contacts/models.py.                                            *)
(*                                                                         *)
(* Text is modelled as TLA+ strings, character by character; the regular   *)
(* expressions of parser.py are translated to pattern trees and matched    *)
(* with the leftmost, priority-ordered semantics of Python's re module.    *)
(***************************************************************************)
EXTENDS Integers, Sequences, FiniteSets, TLC

VARIABLES
    cur_line,    \* _classify_line: the line classified
    cur_class,   \* _classify_line: its class, "none" before the call
    card_text,   \* parse_contact: the raw text parsed
    card_conf,   \* parse_contact: the ocr_confidence passed in
    hash_seed,   \* the string-hash seed of the interpreter running the parser
    calls,       \* parse_contact: the calls made so far
    result,      \* parse_contact: what the last call returned or raised
    first,       \* parse_contact: what the first call returned or raised
    img,         \* detect_card_contours: the decoded image
    cards,       \* detect_card_contours: the crops returned
    crop,        \* ocr_image: the crop read
    tess,        \* ocr_image: what Tesseract does on the crop, attempt by attempt
    cv_rejects_empty,  \* the OpenCV build raises on an empty point set
    ocr_result,  \* ocr_image: what the call returned or raised
    upload,      \* process_image_bytes: the file whose bytes are processed
    proc_result, \* process_image_bytes: what the call returned or raised
    uploaded_files,  \* app: the files uploaded
    file_idx,    \* app: the files the loop has gone through
    contacts,    \* app: the contacts collected
    errors,      \* app: the files an OCR failure was reported for
    crashed,     \* app: an exception has left the script
    pstate,      \* parse_contact step by step: its position and its local variables
    export_contacts,  \* contacts_to_dataframe: the contacts passed in
    df,          \* contacts_to_dataframe: the frame returned, <<>> before the call
    score_text,  \* _calculate_ocr_confidence: the text scored
    score,       \* _calculate_ocr_confidence: the score returned, <<>> before the call
    session_state,  \* st.session_state: the cached outcomes of validate_api_key
    vstate,      \* validate_api_key step by step: its position and its local variables
    verdicts     \* history: <<key, outcome>> for every outcome a check has cached

classVars == <<cur_line, cur_class>>
parseVars == <<card_text, card_conf, hash_seed, calls, result, first>>
segVars == <<img, cards>>
ocrVars == <<crop, tess, cv_rejects_empty, ocr_result>>
procVars == <<upload, proc_result>>
batchVars == <<uploaded_files, file_idx, contacts, errors, crashed>>
exportVars == <<export_contacts, df>>
scoreVars == <<score_text, score>>
keyVars == <<session_state, vstate, verdicts>>
vars == <<classVars, parseVars, segVars, ocrVars, procVars, batchVars, pstate, exportVars, scoreVars, keyVars>>

ClassifyIdle == cur_line = "" /\ cur_class = "none"
SegIdle == img = <<>> /\ cards = <<>>
OcrUnused == crop = <<>> /\ tess = <<>> /\ ocr_result = <<>>
OcrIdle == OcrUnused /\ cv_rejects_empty = FALSE
ProcIdle == upload = <<>> /\ proc_result = <<>>
BatchIdle ==
    /\ uploaded_files = <<>> /\ file_idx = 0
    /\ contacts = <<>> /\ errors = <<>> /\ crashed = FALSE
StagesIdle == pstate = [pc |-> "idle"]
ExportIdle == export_contacts = <<>> /\ df = <<>>
ScoreIdle == score_text = "" /\ score = <<>>
KeyIdle == session_state = <<>> /\ vstate = [pc |-> "idle"] /\ verdicts = {}
AppIdle == ProcIdle /\ BatchIdle /\ StagesIdle /\ ExportIdle /\ ScoreIdle /\ KeyIdle

\* ------------------------------------------------------------------------
\* Characters and Python's str methods
\* ------------------------------------------------------------------------

Char(s, i) == SubSeq(s, i, i)

UpperStr == "ABCDEFGHIJKLMNOPQRSTUVWXYZ"
LowerStr == "abcdefghijklmnopqrstuvwxyz"
DigitStr == "0123456789"

Uppers == {Char(UpperStr, i) : i \in 1..Len(UpperStr)}
Lowers == {Char(LowerStr, i) : i \in 1..Len(LowerStr)}
Digits == {Char(DigitStr, i) : i \in 1..Len(DigitStr)}
Alphas == Uppers \cup Lowers
\* \w of a str pattern (ASCII part): letters, digits and the underscore
WordChars == Alphas \cup Digits \cup {"_"}
\* \s, and the characters str.strip() and str.split() treat as whitespace
Spaces == {" ", "\t", "\n", "\r"}

CaseMap == [c \in Uppers |-> Char(LowerStr, CHOOSE i \in 1..Len(UpperStr) : Char(UpperStr, i) = c)]

LowerChar(c) == IF c \in Uppers THEN CaseMap[c] ELSE c

RECURSIVE StrLower(_)
StrLower(s) == IF s = "" THEN "" ELSE LowerChar(Head(s)) \o StrLower(SubSeq(s, 2, Len(s)))

\* str.strip()
RECURSIVE LStrip(_)
LStrip(s) == IF s # "" /\ Head(s) \in Spaces THEN LStrip(SubSeq(s, 2, Len(s))) ELSE s

RECURSIVE RStrip(_)
RStrip(s) == IF s # "" /\ Char(s, Len(s)) \in Spaces THEN RStrip(SubSeq(s, 1, Len(s) - 1)) ELSE s

Strip(s) == RStrip(LStrip(s))

\* str.split(sep) for a set of separator characters; keepEmpty tells whether
\* empty pieces are kept (split(',')) or dropped (split() on whitespace)
RECURSIVE SplitOn(_, _, _, _)
SplitOn(s, seps, keepEmpty, cur) ==
    IF s = ""
    THEN IF keepEmpty \/ cur # "" THEN <<cur>> ELSE <<>>
    ELSE IF Head(s) \in seps
         THEN (IF keepEmpty \/ cur # "" THEN <<cur>> ELSE <<>>)
              \o SplitOn(SubSeq(s, 2, Len(s)), seps, keepEmpty, "")
         ELSE SplitOn(SubSeq(s, 2, Len(s)), seps, keepEmpty, cur \o Head(s))

\* str.split()
Words(s) == SplitOn(s, Spaces, FALSE, "")

\* sep.join(parts)
RECURSIVE Join(_, _)
Join(parts, sep) ==
    IF parts = <<>> THEN ""
    ELSE IF Len(parts) = 1 THEN parts[1]
    ELSE parts[1] \o sep \o Join(Tail(parts), sep)

\* a in b, for strings
IsSubstr(a, b) == \E i \in 0..(Len(b) - Len(a)) : SubSeq(b, i + 1, i + Len(a)) = a

HasChar(s, cs) == \E i \in 1..Len(s) : Char(s, i) \in cs

\* str.islower(), str.isalpha()
StrIsLower(s) == HasChar(s, Lowers) /\ ~HasChar(s, Uppers)
StrIsAlpha(s) == s # "" /\ \A i \in 1..Len(s) : Char(s, i) \in Alphas

\* sequence helpers
InSeq(x, q) == \E i \in 1..Len(q) : q[i] = x

\* ------------------------------------------------------------------------
\* Python's re: pattern trees and backtracking match
\* ------------------------------------------------------------------------
\* A pattern is a record with a tag t:
\*   "set"  one character in cs (neg: not in cs)
\*   "lit"  the literal string s
\*   "wb"   \b          "bol"  ^
\*   "cat"  the patterns rs in sequence
\*   "alt"  the alternatives rs, tried left to right
\*   "rep"  r repeated lo..hi times, greedy (hi = -1: unbounded)

PSet(cs)        == [t |-> "set", cs |-> cs, neg |-> FALSE]
PNot(cs)        == [t |-> "set", cs |-> cs, neg |-> TRUE]
PLit(s)         == [t |-> "lit", s |-> s]
PWb             == [t |-> "wb"]
PBol            == [t |-> "bol"]
PCat(rs)        == [t |-> "cat", rs |-> rs]
PAlt(rs)        == [t |-> "alt", rs |-> rs]
PRep(r, lo, hi) == [t |-> "rep", r |-> r, lo |-> lo, hi |-> hi]
POpt(r)         == PRep(r, 0, 1)
PPlus(r)        == PRep(r, 1, -1)

\* re.I folds the subject's case; patterns used with it are written in lower case
Fold(c, ic) == IF ic THEN LowerChar(c) ELSE c

IsWordAt(s, i) == i >= 1 /\ i <= Len(s) /\ Char(s, i) \in WordChars

\* the positions in q, first occurrences only, order kept
RECURSIVE Uniq(_, _)
Uniq(q, seen) ==
    IF q = <<>> THEN <<>>
    ELSE IF Head(q) \in seen THEN Uniq(Tail(q), seen)
    ELSE <<Head(q)>> \o Uniq(Tail(q), seen \cup {Head(q)})

\* length of the run of characters matching the set pattern r from offset i
RECURSIVE RunLen(_, _, _, _, _)
RunLen(r, s, i, ic, max) ==
    IF max # 0 /\ i < Len(s) /\ ((Fold(Char(s, i + 1), ic) \in r.cs) # r.neg)
    THEN 1 + RunLen(r, s, i + 1, ic, max - 1)
    ELSE 0

\* <<i + n, i + n - 1, ..., i + lo>>
RECURSIVE Down(_, _)
Down(hi, lo) == IF hi < lo THEN <<>> ELSE <<hi>> \o Down(hi - 1, lo)

\* ReEnds(r, s, i, ic): the offsets at which a match of r starting at offset i
\* of s can end, in the order the backtracking matcher tries them
RECURSIVE ReEnds(_, _, _, _)
RECURSIVE CatEnds(_, _, _, _, _)
RECURSIVE AltEnds(_, _, _, _, _)
RECURSIVE RepEnds(_, _, _, _, _, _)
RECURSIVE FlatEnds(_, _, _, _)

FlatEnds(r, s, starts, ic) ==
    IF starts = <<>> THEN <<>>
    ELSE ReEnds(r, s, Head(starts), ic) \o FlatEnds(r, s, Tail(starts), ic)

CatEnds(rs, k, s, starts, ic) ==
    IF k > Len(rs) \/ starts = <<>> THEN starts
    ELSE CatEnds(rs, k + 1, s, Uniq(FlatEnds(rs[k], s, starts, ic), {}), ic)

AltEnds(rs, k, s, i, ic) ==
    IF k > Len(rs) THEN <<>>
    ELSE ReEnds(rs[k], s, i, ic) \o AltEnds(rs, k + 1, s, i, ic)

RECURSIVE RepMore(_, _, _, _, _, _, _)
RepMore(r, s, nexts, i, lo, hi, ic) ==
    IF nexts = <<>> THEN <<>>
    ELSE (IF Head(nexts) > i
          THEN RepEnds(r, s, Head(nexts), IF lo > 0 THEN lo - 1 ELSE 0,
                       IF hi > 0 THEN hi - 1 ELSE hi, ic)
          ELSE <<>>)
         \o RepMore(r, s, Tail(nexts), i, lo, hi, ic)

RepEnds(r, s, i, lo, hi, ic) ==
    IF r.t = "set"
    THEN LET n == RunLen(r, s, i, ic, hi) IN Down(i + n, i + lo)
    ELSE (IF hi # 0 THEN RepMore(r, s, ReEnds(r, s, i, ic), i, lo, hi, ic) ELSE <<>>)
         \o (IF lo = 0 THEN <<i>> ELSE <<>>)

ReEnds(r, s, i, ic) ==
    CASE r.t = "set" ->
           IF i < Len(s) /\ ((Fold(Char(s, i + 1), ic) \in r.cs) # r.neg)
           THEN <<i + 1>> ELSE <<>>
      [] r.t = "lit" ->
           IF i + Len(r.s) <= Len(s)
              /\ \A k \in 1..Len(r.s) : Fold(Char(s, i + k), ic) = Char(r.s, k)
           THEN <<i + Len(r.s)>> ELSE <<>>
      [] r.t = "wb"  -> IF IsWordAt(s, i) # IsWordAt(s, i + 1) THEN <<i>> ELSE <<>>
      [] r.t = "bol" -> IF i = 0 THEN <<i>> ELSE <<>>
      [] r.t = "cat" -> CatEnds(r.rs, 1, s, <<i>>, ic)
      [] r.t = "alt" -> Uniq(AltEnds(r.rs, 1, s, i, ic), {})
      [] r.t = "rep" -> Uniq(RepEnds(r.r, s, i, r.lo, r.hi, ic), {})

\* pattern.search(s)
ReSearch(r, s, ic) == \E i \in 0..Len(s) : ReEnds(r, s, i, ic) # <<>>

\* pattern.findall(s), for a pattern without capturing groups
RECURSIVE FindAllFrom(_, _, _, _)
FindAllFrom(r, s, pos, ic) ==
    IF pos > Len(s) THEN <<>>
    ELSE LET ends == ReEnds(r, s, pos, ic) IN
         IF ends = <<>> THEN FindAllFrom(r, s, pos + 1, ic)
         ELSE <<SubSeq(s, pos + 1, ends[1])>>
              \o FindAllFrom(r, s, IF ends[1] > pos THEN ends[1] ELSE pos + 1, ic)

ReFindAll(r, s, ic) == FindAllFrom(r, s, 0, ic)

\* ------------------------------------------------------------------------
\* parser.py: the patterns
\* ------------------------------------------------------------------------

PDigit == PSet(Digits)
\* [-.\s]?
PSep == POpt(PSet({"-", "."} \cup Spaces))
\* the alternation of the literal words ws
PWords(ws) == PAlt([k \in 1..Len(ws) |-> PLit(ws[k])])

\* [\w.+-]+@[\w-]+\.[\w.-]+          (re.I)
EMAIL_RE ==
    PCat(<<PPlus(PSet(WordChars \cup {".", "+", "-"})), PLit("@"),
           PPlus(PSet(WordChars \cup {"-"})), PLit("."),
           PPlus(PSet(WordChars \cup {".", "-"}))>>)

\* (?:\+?\d{1,3}[-.\s]?)?(?:\(?\d{3}\)?[-.\s]?\d{3}[-.\s]?\d{4}
\*                          |\d{3}[-.\s]?\d{3}[-.\s]?\d{4}|\d{10})
PHONE_RE ==
    PCat(<<POpt(PCat(<<POpt(PLit("+")), PRep(PDigit, 1, 3), PSep>>)),
           PAlt(<<PCat(<<POpt(PLit("(")), PRep(PDigit, 3, 3), POpt(PLit(")")), PSep,
                         PRep(PDigit, 3, 3), PSep, PRep(PDigit, 4, 4)>>),
                  PCat(<<PRep(PDigit, 3, 3), PSep, PRep(PDigit, 3, 3), PSep,
                         PRep(PDigit, 4, 4)>>),
                  PRep(PDigit, 10, 10)>>)>>)

\* (?:https?://)?(?:www\.)?[\w.-]+\.[a-z]{2,}(?:/\S*)?          (re.I)
WEBSITE_RE ==
    PCat(<<POpt(PCat(<<PLit("http"), POpt(PLit("s")), PLit("://")>>)),
           POpt(PLit("www.")),
           PPlus(PSet(WordChars \cup {".", "-"})), PLit("."),
           PRep(PSet(Lowers), 2, -1),
           POpt(PCat(<<PLit("/"), PRep(PNot(Spaces), 0, -1)>>))>>)

\* \b(?:CEO|CTO|...|Admin)\b          (re.I)
TITLE_KEYWORDS ==
    PCat(<<PWb,
           PWords(<<"ceo", "cto", "cfo", "coo", "vp", "vice president", "president",
                    "director", "manager", "senior", "lead", "principal",
                    "engineer", "developer", "designer", "analyst", "consultant",
                    "specialist", "coordinator", "assistant",
                    "executive", "founder", "owner", "partner", "sales", "marketing",
                    "hr", "operations", "finance", "legal", "admin">>),
           PWb>>)

\* \b(?:Inc|LLC|...|Holdings)\b          (re.I)
COMPANY_INDICATORS ==
    PCat(<<PWb,
           PWords(<<"inc", "llc", "corp", "corporation", "company", "co.", "ltd",
                    "limited", "group", "associates",
                    "partners", "solutions", "services", "systems", "technologies",
                    "tech", "consulting",
                    "international", "global", "enterprises", "holdings">>),
           PWb>>)

\* \b(?:\d+\s+\w+\s+(?:St|Street|...|Parkway)|P\.?O\.?\s+Box\s+\d+|\d{5}(?:-\d{4})?)\b
\*                                                                       (re.I)
ADDRESS_PATTERNS ==
    PCat(<<PWb,
           PAlt(<<PCat(<<PPlus(PDigit), PPlus(PSet(Spaces)), PPlus(PSet(WordChars)),
                         PPlus(PSet(Spaces)),
                         PWords(<<"st", "street", "ave", "avenue", "rd", "road", "blvd",
                                  "boulevard", "dr", "drive", "ln", "lane",
                                  "ct", "court", "pl", "place", "way", "circle",
                                  "pkwy", "parkway">>)>>),
                  PCat(<<PLit("p"), POpt(PLit(".")), PLit("o"), POpt(PLit(".")),
                         PPlus(PSet(Spaces)), PLit("box"), PPlus(PSet(Spaces)),
                         PPlus(PDigit)>>),
                  PCat(<<PRep(PDigit, 5, 5),
                         POpt(PCat(<<PLit("-"), PRep(PDigit, 4, 4)>>))>>)>>),
           PWb>>)

\* ------------------------------------------------------------------------
\* parser.py: _classify_line
\* ------------------------------------------------------------------------

\* word[0].isupper() and word[1:].islower(), for every word
AllCapitalized(words) ==
    \A k \in 1..Len(words) :
        Head(words[k]) \in Uppers /\ StrIsLower(SubSeq(words[k], 2, Len(words[k])))

AmbiguousTitleWords == {"developer", "engineer", "manager", "designer"}

\* a title rule whose exception takes any two capitalized words
ClassifyTitleLineAnyTwoWords(ln) ==
    IF Len(Words(Strip(ln))) = 2 /\ AllCapitalized(Words(Strip(ln))) THEN "name" ELSE "title"

\* lines 72-81: the line holds a title keyword
ClassifyTitleLine(ln) ==
    LET Decide(words, title_matches) ==
            IF Len(words) = 2 /\ AllCapitalized(words)
               /\ Len(title_matches) = 1
               /\ StrLower(title_matches[1]) \in AmbiguousTitleWords
            THEN "name"
            ELSE "title"
    IN  Decide(Words(Strip(ln)), ReFindAll(TITLE_KEYWORDS, ln, TRUE))

NameSuffixes == {"jr", "sr", "iii", "ii", "phd", "md", "esq"}

\* structural heuristics that know capitalized words only
ClassifyNameLineCapitalized(ln) ==
    LET Decide(line_clean, words) ==
            IF /\ Len(words) <= 4 /\ ~HasChar(line_clean, Digits)
               /\ \A k \in 1..Len(words) : Head(words[k]) \in Uppers
            THEN "name" ELSE "none"
    IN  Decide(Strip(ln), Words(Strip(ln)))

\* lines 92-108: the structural name heuristics; "none" when they do not decide
ClassifyNameLine(ln) ==
    LET Decide(line_clean, words) ==
            IF Len(words) <= 4 /\ ~HasChar(line_clean, Digits)
            THEN IF \/ \A k \in 1..Len(words) : Head(words[k]) \in Uppers
                    \/ Len(words) = 2
                    \/ \E k \in 1..Len(words) : StrLower(words[k]) \in NameSuffixes
                    \/ Len(words) >= 2 /\ \A k \in 1..Len(words) : StrIsAlpha(words[k])
                 THEN "name"
                 ELSE IF Len(words) <= 3 /\ Head(line_clean) \in Uppers
                      THEN "name"
                      ELSE "none"
            ELSE "none"
    IN  Decide(Strip(ln), Words(Strip(ln)))

DeptKeywords == {"department", "dept", "division", "team", "group", "unit"}
LocationKeywords ==
    {"usa", "united states", "canada", "uk", "california", "texas", "new york", "florida"}

\* a classifier that checks the company indicators before the title keywords
ClassifyLineCompanyFirst(ln) ==
    LET Decide(line_lower, line_clean, by_structure) ==
            IF Len(line_clean) < 2 THEN "other"
            ELSE IF \/ ReSearch(EMAIL_RE, line_clean, TRUE)
                    \/ ReSearch(PHONE_RE, line_clean, FALSE)
                    \/ ReSearch(WEBSITE_RE, line_clean, TRUE)
            THEN "other"
            ELSE IF ReSearch(COMPANY_INDICATORS, ln, TRUE) THEN "company"
            ELSE IF ReSearch(TITLE_KEYWORDS, ln, TRUE) THEN ClassifyTitleLine(ln)
            ELSE IF ReSearch(ADDRESS_PATTERNS, ln, TRUE) THEN "address"
            ELSE IF by_structure # "none" THEN by_structure
            ELSE IF \E k \in DeptKeywords : IsSubstr(k, line_lower) THEN "company"
            ELSE IF \E k \in LocationKeywords : IsSubstr(k, line_lower) THEN "address"
            ELSE "other"
    IN  Decide(StrLower(ln), Strip(ln), ClassifyNameLine(ln))

ClassifyLine(ln) ==
    LET Decide(line_lower, line_clean, by_structure) ==
            IF Len(line_clean) < 2 THEN "other"
            ELSE IF \/ ReSearch(EMAIL_RE, line_clean, TRUE)
                    \/ ReSearch(PHONE_RE, line_clean, FALSE)
                    \/ ReSearch(WEBSITE_RE, line_clean, TRUE)
            THEN "other"
            ELSE IF ReSearch(TITLE_KEYWORDS, ln, TRUE) THEN ClassifyTitleLine(ln)
            ELSE IF ReSearch(COMPANY_INDICATORS, ln, TRUE) THEN "company"
            ELSE IF ReSearch(ADDRESS_PATTERNS, ln, TRUE) THEN "address"
            ELSE IF by_structure # "none" THEN by_structure
            ELSE IF \E k \in DeptKeywords : IsSubstr(k, line_lower) THEN "company"
            ELSE IF \E k \in LocationKeywords : IsSubstr(k, line_lower) THEN "address"
            ELSE "other"
    IN  Decide(StrLower(ln), Strip(ln), ClassifyNameLine(ln))

\* ------------------------------------------------------------------------
\* parser.py: field selection and validation
\* ------------------------------------------------------------------------
\* An optional string (Optional[str]) is <<>> for None and <<s>> for the string s.

NoneVal == <<>>
Some(s) == <<s>>
\* Python truthiness of an optional string: neither None nor ""
Truthy(x) == x # <<>> /\ x[1] # ""

\* '\n'.join(ls) if ls else None
JoinOrNone(ls) == IF ls = <<>> THEN NoneVal ELSE Some(Join(ls, "\n"))

\* [line for line in cleaned_lines if line not in [a, b] and line not in addr]
RemainingLines(cleaned_lines, a, b, addr) ==
    SelectSeq(cleaned_lines, LAMBDA l : Some(l) # a /\ Some(l) # b /\ ~InSeq(l, addr))

\* q[-1] if q else None
LastOf(q) == IF q = <<>> THEN NoneVal ELSE Some(q[Len(q)])

\* q[0] if q else None
FirstOf(q) == IF q = <<>> THEN NoneVal ELSE Some(q[1])

\* the lines of cl, a sequence of <<line, class>>, whose class is c
OfClass(cl, c) ==
    LET Lines(sel) == [k \in 1..Len(sel) |-> sel[k][1]]
    IN  Lines(SelectSeq(cl, LAMBDA p : p[2] = c))

\* a parser without the positional fallback for the title
PositionalTitleOff(cleaned_lines, full_name, title0, company0, all_address_lines) ==
    title0

\* lines 149-155: the title after the positional fallback
PositionalTitle(cleaned_lines, full_name, title0, company0, all_address_lines) ==
    LET Pick(rem1) == IF ~Truthy(title0) /\ Len(cleaned_lines) >= 2 /\ rem1 # <<>>
                      THEN Some(rem1[1]) ELSE title0
    IN  Pick(RemainingLines(cleaned_lines, full_name, company0, all_address_lines))

\* a positional fallback for the company that does not count the lines
PositionalCompanyAnyLength(cleaned_lines, full_name, title, company0, all_address_lines) ==
    LET Pick(rem2) == IF ~Truthy(company0) /\ rem2 # <<>> THEN Some(rem2[1]) ELSE company0
    IN  Pick(RemainingLines(cleaned_lines, full_name, title, all_address_lines))

\* lines 157-163: the company after the positional fallback
PositionalCompany(cleaned_lines, full_name, title, company0, all_address_lines) ==
    LET Pick(rem2) == IF ~Truthy(company0) /\ Len(cleaned_lines) >= 3 /\ rem2 # <<>>
                      THEN Some(rem2[1]) ELSE company0
    IN  Pick(RemainingLines(cleaned_lines, full_name, title, all_address_lines))

\* a parser that takes the fields by position: name, title, company
SmartParseFieldsByPosition(cleaned_lines) ==
    LET At(k) == IF Len(cleaned_lines) >= k THEN Some(cleaned_lines[k]) ELSE NoneVal
    IN  [full_name |-> At(1), title |-> At(2), company |-> At(3), address |-> NoneVal]

SmartParseFields(cleaned_lines) ==
    LET Company(full_name, title, company0, all_address_lines) ==
            [full_name |-> full_name, title |-> title,
             company |-> PositionalCompany(cleaned_lines, full_name, title, company0,
                                           all_address_lines),
             address |-> JoinOrNone(all_address_lines)]
        Title(full_name, title0, company0, all_address_lines) ==
            Company(full_name,
                    PositionalTitle(cleaned_lines, full_name, title0, company0,
                                    all_address_lines),
                    company0, all_address_lines)
        \* lines 140-142: the first line as the name of last resort
        Name(name0, title0, company0, all_address_lines) ==
            Title(IF ~Truthy(name0) /\ cleaned_lines # <<>>
                  THEN Some(cleaned_lines[1]) ELSE name0,
                  title0, company0, all_address_lines)
        Fields(cl) ==
            Name(FirstOf(OfClass(cl, "name")), FirstOf(OfClass(cl, "title")),
                 FirstOf(OfClass(cl, "company")),
                 OfClass(cl, "address")
                 \o SelectSeq(OfClass(cl, "other"),
                              LAMBDA l : ReSearch(ADDRESS_PATTERNS, l, TRUE)))
    IN  Fields([k \in 1..Len(cleaned_lines) |->
                   <<cleaned_lines[k], ClassifyLine(cleaned_lines[k])>>])

\* lines 181-185: the value can stand for a name
LooksLikeName(v) ==
    /\ Len(Words(v)) <= 3
    /\ Head(v) \in Uppers
    /\ ~HasChar(v, Digits)
    /\ Len(v) > 3
    /\ ~ReSearch(COMPANY_INDICATORS, v, TRUE)
    /\ ~ReSearch(TITLE_KEYWORDS, v, TRUE)

\* lines 176-188: with contact info and no name, the first of title, company
\* (the dict's order) that can stand for a name is moved to full_name
PromoteName(f, has_contact_info) ==
    IF has_contact_info /\ ~Truthy(f.full_name)
    THEN IF Truthy(f.title) /\ LooksLikeName(f.title[1])
         THEN [f EXCEPT !.full_name = f.title, !.title = NoneVal]
         ELSE IF Truthy(f.company) /\ LooksLikeName(f.company[1])
         THEN [f EXCEPT !.full_name = f.company, !.company = NoneVal]
         ELSE f
    ELSE f

\* a validation pass that leaves title and company where they are
SwapTitleCompanyOff(f) == f

\* lines 194-197: a company-looking title and a company that does not look like one
SwapTitleCompany(f) ==
    IF /\ ReSearch(COMPANY_INDICATORS, f.title[1], TRUE)
       /\ Truthy(f.company)
       /\ ~ReSearch(COMPANY_INDICATORS, f.company[1], TRUE)
    THEN [f EXCEPT !.title = f.company, !.company = f.title]
    ELSE f

\* lines 200-208: "title, company" in one line; title is the value before the swap
SplitTitle(f, title) ==
    IF HasChar(title, {","}) /\ ~Truthy(f.company)
    THEN LET Split(raw) ==
                 IF Len(raw) = 2
                    /\ (\/ ReSearch(COMPANY_INDICATORS, Strip(raw[2]), TRUE)
                        \/ ReSearch(TITLE_KEYWORDS, Strip(raw[1]), TRUE))
                 THEN [f EXCEPT !.title = Some(Strip(raw[1])),
                                !.company = Some(Strip(raw[2]))]
                 ELSE f
         IN  Split(SplitOn(title, {","}, TRUE, ""))
    ELSE f

\* ^(at|@)\s+          (re.I)
AT_PREFIX_RE == PCat(<<PBol, PAlt(<<PLit("at"), PLit("@")>>), PPlus(PSet(Spaces))>>)

\* lines 211-216: re.sub(r'^(at|@)\s+', '', company)
CleanCompany(f) ==
    IF Truthy(f.company)
    THEN LET Sub(ends) ==
                 IF ends # <<>>
                 THEN [f EXCEPT !.company =
                                    Some(SubSeq(f.company[1], ends[1] + 1, Len(f.company[1])))]
                 ELSE f
         IN  Sub(ReEnds(AT_PREFIX_RE, f.company[1], 0, TRUE))
    ELSE f

\* lines 223-231: the loop over the address lines; acc is
\* [f |-> the fields, keep |-> the lines kept so far]
RECURSIVE CleanAddressLines(_, _)
CleanAddressLines(addr_lines, acc) ==
    IF addr_lines = <<>> THEN acc
    ELSE LET Step(l, line_type) ==
                 IF line_type \in {"address", "other"}
                 THEN [acc EXCEPT !.keep = Append(acc.keep, l)]
                 ELSE IF ~Truthy(acc.f.company) /\ line_type = "company"
                 THEN [acc EXCEPT !.f.company = Some(l)]
                 ELSE IF ~Truthy(acc.f.title) /\ line_type = "title"
                 THEN [acc EXCEPT !.f.title = Some(l)]
                 ELSE acc
         IN  CleanAddressLines(Tail(addr_lines),
                               Step(Head(addr_lines), ClassifyLine(Head(addr_lines))))

\* a check that keeps only the lines classified 'address'
CleanAddressStrict(f) ==
    IF Truthy(f.address)
    THEN [f EXCEPT !.address =
                       JoinOrNone(SelectSeq(SplitOn(f.address[1], {"\n"}, TRUE, ""),
                                            LAMBDA l : ClassifyLine(l) = "address"))]
    ELSE f

\* lines 219-233
CleanAddress(f) ==
    IF Truthy(f.address)
    THEN LET Stripped(raw) == [k \in 1..Len(raw) |-> Strip(raw[k])]
             Result(res) == [res.f EXCEPT !.address = JoinOrNone(res.keep)]
         IN  Result(CleanAddressLines(
                        SelectSeq(Stripped(SplitOn(f.address[1], {"\n"}, TRUE, "")),
                                  LAMBDA l : l # ""),
                        [f |-> f, keep |-> <<>>]))
    ELSE f

ValidateFieldAssignments(classified_fields, emails, phones) ==
    LET FixTitle(v) ==
            IF Truthy(v.title) THEN SplitTitle(SwapTitleCompany(v), v.title[1]) ELSE v
    IN  CleanAddress(CleanCompany(FixTitle(
            PromoteName(classified_fields, emails # <<>> \/ phones # <<>>))))

\* ------------------------------------------------------------------------
\* parser.py: _extract_structured_data
\* ------------------------------------------------------------------------

\* the characters of s that are in cs, in order (re.sub(r'[^0-9+]', '', s))
RECURSIVE KeepChars(_, _)
KeepChars(s, cs) ==
    IF s = "" THEN ""
    ELSE (IF Head(s) \in cs THEN Head(s) ELSE "") \o KeepChars(SubSeq(s, 2, Len(s)), cs)

PhoneChars == Digits \cup {"+"}

RECURSIVE Reverse(_)
Reverse(q) == IF q = <<>> THEN <<>> ELSE Append(Reverse(Tail(q)), Head(q))

Rotate(q, n) ==
    IF q = <<>> THEN q
    ELSE LET k == n % Len(q) IN SubSeq(q, k + 1, Len(q)) \o SubSeq(q, 1, k)

\* list(set(...)): the iteration order of a set of strings is fixed by the
\* interpreter's string-hash seed, not by the order of insertion. q holds the
\* distinct elements in insertion order; the seed picks the permutation.
SetIterOrder(q, seed) ==
    LET r == Rotate(q, seed \div 2) IN IF seed % 2 = 1 THEN Reverse(r) ELSE r

ExtractEmails(raw_text, seed) ==
    LET Lowered(found) == [k \in 1..Len(found) |-> Strip(StrLower(found[k]))]
    IN  SetIterOrder(Uniq(Lowered(ReFindAll(EMAIL_RE, raw_text, TRUE)), {}), seed)

ExtractPhones(raw_text) ==
    SelectSeq(ReFindAll(PHONE_RE, raw_text, FALSE),
              LAMBDA ph : Len(KeepChars(ph, PhoneChars)) >= 10)

ExtractWebsite(raw_text, emails) ==
    FirstOf(SelectSeq(ReFindAll(WEBSITE_RE, raw_text, TRUE),
                      LAMBDA m : ~\E k \in 1..Len(emails) : IsSubstr(m, emails[k])))

ExtractStructuredData(raw_text, seed) ==
    LET Data(emails) == [emails |-> emails, phones |-> ExtractPhones(raw_text),
                         website |-> ExtractWebsite(raw_text, emails)]
    IN  Data(ExtractEmails(raw_text, seed))

\* ------------------------------------------------------------------------
\* models.py: Contact and its validators
\* ------------------------------------------------------------------------

\* a validator that keeps every phone as displayed
CleanPhonesAsDisplayed(v) == v

\* _clean_phones: PHONE_CLEAN_RE.sub("", phone), kept when 10 characters or more
CleanPhones(v) ==
    SelectSeq([k \in 1..Len(v) |-> KeepChars(v[k], PhoneChars)], LAMBDA c : Len(c) >= 10)

\* _validate_name
ValidateName(v) ==
    IF ~Truthy(v) THEN NoneVal
    ELSE LET Check(cleaned) ==
                 IF Len(cleaned) < 2 \/ Len(cleaned) > 100 THEN NoneVal
                 ELSE IF ~HasChar(cleaned, Alphas) THEN NoneVal
                 ELSE Some(cleaned)
         IN  Check(Join(Words(Strip(v[1])), " "))

\* _validate_emails
ValidateEmails(v) ==
    LET Lowered(kept) == [k \in 1..Len(kept) |-> Strip(StrLower(kept[k]))]
    IN  Lowered(SelectSeq(v, LAMBDA e : HasChar(e, {"@"})))

\* EmailStr: the syntax check pydantic applies to every entry of emails (the
\* email_validator package): the local part is a dot-atom (no leading, trailing
\* or doubled period), the domain is made of non-empty labels of letters,
\* digits and inner hyphens
EmailStrValid(e) ==
    LET Domain(labels) ==
            /\ Len(labels) >= 2
            /\ \A k \in 1..Len(labels) :
                  /\ labels[k] # ""
                  /\ \A i \in 1..Len(labels[k]) :
                        Char(labels[k], i) \in Alphas \cup Digits \cup {"-"}
                  /\ Head(labels[k]) # "-" /\ Char(labels[k], Len(labels[k])) # "-"
        Address(parts) ==
            /\ Len(parts) = 2
            /\ parts[1] # ""
            /\ Head(parts[1]) # "." /\ Char(parts[1], Len(parts[1])) # "."
            /\ ~IsSubstr("..", parts[1])
            /\ Domain(SplitOn(parts[2], {"."}, TRUE, ""))
    IN  Address(SplitOn(e, {"@"}, TRUE, ""))

\* Contact(...): the record built, or the ValidationError raised when an
\* entry of emails is not a valid address
Contact(full_name, title, company, emails, phones, website, address, ocr_confidence) ==
    LET Build(es, ok) ==
            [raised |-> ~ok,
             full_name |-> IF ok THEN ValidateName(full_name) ELSE NoneVal,
             title |-> IF ok THEN title ELSE NoneVal,
             company |-> IF ok THEN company ELSE NoneVal,
             emails |-> IF ok THEN es ELSE <<>>,
             phones |-> IF ok THEN CleanPhones(phones) ELSE <<>>,
             website |-> IF ok THEN website ELSE NoneVal,
             address |-> IF ok THEN address ELSE NoneVal,
             ocr_confidence |-> IF ok THEN ocr_confidence ELSE NoneVal]
        Validate(es) == Build(es, \A k \in 1..Len(es) : EmailStrValid(es[k]))
    IN  Validate(ValidateEmails(emails))

\* ------------------------------------------------------------------------
\* parser.py: parse_contact
\* ------------------------------------------------------------------------

\* [l.strip() for l in LINE_SPLIT_RE.split(raw_text) if l.strip()]
SplitLines(raw_text) ==
    LET Stripped(raw) == [k \in 1..Len(raw) |-> Strip(raw[k])]
    IN  SelectSeq(Stripped(SplitOn(raw_text, {"\r", "\n"}, FALSE, "")), LAMBDA l : l # "")

RecoveryKeywords == {"street", "ave", "road", "blvd", "drive", "suite", "floor"}
\* \d{5}
ZIP_RE == PRep(PDigit, 5, 5)
\* \d+\s+\w+
STREET_NUMBER_RE == PCat(<<PPlus(PDigit), PPlus(PSet(Spaces)), PPlus(PSet(WordChars))>>)

\* lines 296-299
IsPotentialAddress(l) ==
    \/ ReSearch(ADDRESS_PATTERNS, l, TRUE)
    \/ \E k \in RecoveryKeywords : IsSubstr(k, StrLower(l))
    \/ ReSearch(ZIP_RE, l, FALSE)
    \/ ReSearch(STREET_NUMBER_RE, l, FALSE)

\* lines 293-303
RecoverAddress(f, cleaned_lines) ==
    IF ~Truthy(f.address)
    THEN LET Recovered(potential) ==
                 IF potential # <<>> THEN [f EXCEPT !.address = Some(Join(potential, "\n"))]
                 ELSE f
         IN  Recovered(SelectSeq(cleaned_lines, IsPotentialAddress))
    ELSE f

\* lines 281-284
CleanedLines(lines, sd) ==
    SelectSeq(lines, LAMBDA l : /\ ~InSeq(l, sd.emails)
                                /\ ~InSeq(l, sd.phones)
                                /\ Some(l) # sd.website)

\* the fields of parse_contact just before the Contact is built
ParseFields(raw_text, seed) ==
    LET Fields(sd, cleaned_lines) ==
            [sd |-> sd, cleaned_lines |-> cleaned_lines,
             fields |-> RecoverAddress(
                            ValidateFieldAssignments(SmartParseFields(cleaned_lines),
                                                     sd.emails, sd.phones),
                            cleaned_lines)]
        Cleaned(lines, sd) == Fields(sd, CleanedLines(lines, sd))
    IN  Cleaned(SplitLines(raw_text), ExtractStructuredData(raw_text, seed))

ParseContact(raw_text, ocr_confidence, seed) ==
    LET Build(p) == Contact(p.fields.full_name, p.fields.title, p.fields.company,
                            p.sd.emails, p.sd.phones, p.sd.website, p.fields.address,
                            ocr_confidence)
    IN  Build(ParseFields(raw_text, seed))

\* ------------------------------------------------------------------------
\* parse_contact called on the text of a card
\* ------------------------------------------------------------------------

\* every text of at most n lines drawn from the set ls, joined by newlines
TextsOf(ls, n) == {Join(q, "\n") : q \in UNION {[1..k -> ls] : k \in 0..n}}

\* the longest card text, in lines
MaxLines == 2

\* lines of a card: a name, a title, a company, one address in two spellings,
\* a second address, and an address followed by the period that ends a sentence
CardLines == {"Jo Li", "CEO", "Ab Inc", "jo@ex.co", "Jo@Ex.co", "al@ex.co", "jo@ex.co."}

\* test_empty_text's whitespace-only text
BlankText == "   \n\n  \t  "

CardTexts == TextsOf(CardLines, MaxLines) \cup {BlankText}

\* string-hash seeds an interpreter can start with (PYTHONHASHSEED)
HashSeeds == 0..1

ParseStart(texts) ==
    /\ card_text \in texts
    /\ card_conf \in {NoneVal, Some(8)}
    /\ hash_seed \in HashSeeds
    /\ calls = 0 /\ result = NoneVal /\ first = NoneVal

ParseIdle == ParseStart({""}) /\ card_conf = NoneVal /\ hash_seed = 0

InitParse == ParseStart(CardTexts) /\ ClassifyIdle /\ SegIdle /\ OcrIdle /\ AppIdle

\* one call of parse_contact(raw_text, ocr_confidence)
ParseContactCall ==
    /\ calls < 2
    /\ result' = Some(ParseContact(card_text, card_conf, hash_seed))
    /\ first' = IF calls = 0 THEN result' ELSE first
    /\ calls' = calls + 1
    /\ UNCHANGED <<card_text, card_conf, hash_seed, classVars, segVars, ocrVars,
                   procVars, batchVars, pstate, exportVars, scoreVars, keyVars>>

\* the application is started again between two calls: the new interpreter
\* draws its string-hash seed afresh
Restart ==
    /\ calls = 1
    /\ hash_seed' \in HashSeeds \ {hash_seed}
    /\ UNCHANGED <<card_text, card_conf, calls, result, first, classVars, segVars,
                   ocrVars, procVars, batchVars, pstate, exportVars, scoreVars, keyVars>>

NextParse == ParseContactCall \/ Restart

SpecParse == InitParse /\ [][NextParse]_vars

\* the last call returned a record
Returned == result # NoneVal /\ ~result[1].raised

\* C5: parse_contact never raises, whatever the text; for an empty or
\* whitespace-only text the record has full_name None, emails [] and phones []
C5_NeverRaises ==
    result # NoneVal =>
        /\ ~result[1].raised
        /\ Strip(card_text) = "" =>
               /\ result[1].full_name = NoneVal
               /\ result[1].emails = <<>>
               /\ result[1].phones = <<>>

\* C6: two calls of parse_contact with the same text and the same confidence
\* return equal records, the order of emails and phones included
C6_Deterministic == calls = 2 => result = first

\* offset of the first occurrence of a in b (past the end when there is none)
FirstIndex(a, b) ==
    LET at == {i \in 1..Len(b) : i + Len(a) - 1 <= Len(b) /\ SubSeq(b, i, i + Len(a) - 1) = a}
    IN  IF at = {} THEN Len(b) + 1 ELSE CHOOSE i \in at : \A j \in at : i <= j

\* C7: for a text holding an email, the emails of the record are non-empty,
\* lower-cased, without duplicates, and in the order of first occurrence
C7_EmailsOrdered ==
    Returned /\ ReSearch(EMAIL_RE, card_text, TRUE) =>
        /\ result[1].emails # <<>>
        /\ \A k \in 1..Len(result[1].emails) :
              result[1].emails[k] = StrLower(result[1].emails[k])
        /\ \A j, k \in 1..Len(result[1].emails) :
              j < k => /\ result[1].emails[j] # result[1].emails[k]
                       /\ FirstIndex(result[1].emails[j], StrLower(card_text))
                            < FirstIndex(result[1].emails[k], StrLower(card_text))

\* ------------------------------------------------------------------------
\* parse_contact called on a text with phone numbers
\* ------------------------------------------------------------------------

\* the formats of test_phone_number_variations
SupportedPhones ==
    {"(555) 123-4567", "555-123-4567", "555.123.4567", "5551234567", "+1 555 123 4567"}

\* the numbers, a number too short to be one, and a name
PhoneLines == SupportedPhones \cup {"555-1234", "Jo Li"}

PhoneTexts == TextsOf(PhoneLines, MaxLines)

InitPhone == ParseStart(PhoneTexts) /\ ClassifyIdle /\ SegIdle /\ OcrIdle /\ AppIdle

SpecPhone == InitPhone /\ [][NextParse]_vars

\* C8: phones holds no duplicates by cleaned value and keeps first-seen
\* order: it is the cleaned numbers of the text, each at its first occurrence
C8_PhonesDistinct ==
    Returned =>
        /\ \A j, k \in 1..Len(result[1].phones) :
              j # k => result[1].phones[j] # result[1].phones[k]
        /\ result[1].phones
             = Uniq([k \in 1..Len(ReFindAll(PHONE_RE, card_text, FALSE)) |->
                       KeepChars(ReFindAll(PHONE_RE, card_text, FALSE)[k], PhoneChars)], {})

DigitCount(s) == Len(KeepChars(s, Digits))

\* digits with at most a leading '+', and 10 digits or more
IsPhoneEntry(ph) ==
    /\ DigitCount(ph) >= 10
    /\ \A i \in 1..Len(ph) : Char(ph, i) \in Digits \/ (i = 1 /\ Char(ph, i) = "+")

\* one line of the text is a number in a supported format, and the rest of
\* the text holds too few digits for a second number
HoldsOneNumber(text) ==
    \E k \in 1..Len(SplitLines(text)) :
        /\ SplitLines(text)[k] \in SupportedPhones
        /\ DigitCount(text) - DigitCount(SplitLines(text)[k]) < 10

LineWords == {"John", "Developer", "Manager", "Sales", "developer", "ENGINEER", "Inc", "A"}
MaxWords == 2
ClassifyInputs ==
    {Join(q, " ") : q \in UNION {[1..k -> LineWords] : k \in 1..MaxWords}}

InitClassify ==
    /\ cur_line \in ClassifyInputs /\ cur_class = "none"
    /\ ParseIdle /\ SegIdle /\ OcrIdle /\ AppIdle

ClassifyCall ==
    /\ cur_class = "none"
    /\ cur_class' = ClassifyLine(cur_line)
    /\ UNCHANGED <<cur_line, parseVars, segVars, ocrVars, procVars, batchVars, pstate, exportVars, scoreVars, keyVars>>

SpecClassify == InitClassify /\ [][ClassifyCall]_vars

\* exactly two capitalized words whose only title keyword is one of
\* developer, engineer, manager, designer
AmbiguousSurnameCase(ln) ==
    /\ Len(Words(Strip(ln))) = 2
    /\ AllCapitalized(Words(Strip(ln)))
    /\ Len(ReFindAll(TITLE_KEYWORDS, ln, TRUE)) = 1
    /\ StrLower(ReFindAll(TITLE_KEYWORDS, ln, TRUE)[1]) \in AmbiguousTitleWords

\* C10: a line that holds a title keyword and is not the ambiguous-surname
\* case is never classified 'name'
C10_TitleNeverName ==
    /\ cur_class # "none"
    /\ ReSearch(TITLE_KEYWORDS, cur_line, TRUE)
    /\ ~AmbiguousSurnameCase(cur_line)
    => cur_class # "name"

\* two capitalized words, both title keywords, classified 'title'
C10_Witness ==
    /\ cur_class = "title"
    /\ Len(Words(cur_line)) = 2 /\ AllCapitalized(Words(cur_line))
    /\ Len(ReFindAll(TITLE_KEYWORDS, cur_line, TRUE)) = 2

\* lines on which more than one of the first four rules could apply: contact
\* data alone and beside a keyword, an address alone and beside a keyword
RuleLines ==
    {"jo@ex.co", "CEO jo@ex.co", "555-123-4567", "Inc 555-123-4567", "ex.co",
     "Manager ex.co", "12 Ab St", "Inc 12345", "CEO 12345", "PO Box 12",
     "Ab Inc, 12 Ab St", "Jo Li", " A ", "Alice Manager"}

InitClassifyRules ==
    /\ cur_line \in ClassifyInputs \cup RuleLines /\ cur_class = "none"
    /\ ParseIdle /\ SegIdle /\ OcrIdle /\ AppIdle

SpecClassifyRules == InitClassifyRules /\ [][ClassifyCall]_vars

\* what the first four rules say of a line, in their order; "none" when
\* none of them applies
ByFirstFourRules(ln) ==
    IF Len(Strip(ln)) < 2 THEN "other"
    ELSE IF \/ ReSearch(EMAIL_RE, Strip(ln), TRUE)
            \/ ReSearch(PHONE_RE, Strip(ln), FALSE)
            \/ ReSearch(WEBSITE_RE, Strip(ln), TRUE)
    THEN "other"
    ELSE IF ReSearch(TITLE_KEYWORDS, ln, TRUE)
    THEN IF AmbiguousSurnameCase(ln) THEN "name" ELSE "title"
    ELSE IF ReSearch(COMPANY_INDICATORS, ln, TRUE) THEN "company"
    ELSE IF ReSearch(ADDRESS_PATTERNS, ln, TRUE) THEN "address"
    ELSE "none"

\* C11: the first four rules of _classify_line apply in fixed priority, the
\* first match deciding: short line or contact data 'other', then title
\* keyword 'title' (the ambiguous-surname case 'name'), then company
\* indicator 'company', then address pattern 'address'
C11_RulePriority ==
    cur_class # "none" /\ ByFirstFourRules(cur_line) # "none"
        => cur_class = ByFirstFourRules(cur_line)

\* a line with a title keyword and a company indicator, classified 'title'
C11_Witness ==
    /\ cur_class = "title"
    /\ ReSearch(TITLE_KEYWORDS, cur_line, TRUE)
    /\ ReSearch(COMPANY_INDICATORS, cur_line, TRUE)

\* ------------------------------------------------------------------------
\* _classify_line called on a line without keyword, indicator or address
\* ------------------------------------------------------------------------

\* words of such lines: capitalized, lower-case, not alphabetic, a name
\* suffix, with a digit
NameWords == {"Jo", "li", "d'x", "jr", "R2"}
MaxNameWords == 4
NameInputs ==
    {Join(q, " ") : q \in UNION {[1..k -> NameWords] : k \in 1..MaxNameWords}}

InitClassifyNames ==
    /\ cur_line \in NameInputs /\ cur_class = "none"
    /\ ParseIdle /\ SegIdle /\ OcrIdle /\ AppIdle

SpecClassifyNames == InitClassifyNames /\ [][ClassifyCall]_vars

\* the line has been classified, none of the first four rules applied to
\* it, and it has 1 to 4 words and no digit
AtStructuralStep ==
    /\ cur_class # "none"
    /\ ByFirstFourRules(cur_line) = "none"
    /\ Len(Words(Strip(cur_line))) \in 1..4
    /\ \A i \in 1..Len(cur_line) : Char(cur_line, i) \notin Digits

\* all words capitalized, or exactly 2 words, or a suffix token among the words
NameShaped(words) ==
    \/ \A k \in 1..Len(words) : Char(words[k], 1) \in Uppers
    \/ Len(words) = 2
    \/ \E k \in 1..Len(words) :
          StrLower(words[k]) \in {"jr", "sr", "iii", "ii", "phd", "md", "esq"}

\* every character of every word is a letter
AllAlphabetic(words) ==
    \A k \in 1..Len(words) : \A i \in 1..Len(words[k]) : Char(words[k], i) \in Alphas

\* at most 3 words, the first character uppercase
ShortAndUpper(words) == Len(words) <= 3 /\ Char(words[1], 1) \in Uppers

\* C21 as stated: at the structural step a line is 'name' when all its words
\* are capitalized, or it has 2 words, or holds a suffix token, or all its
\* words are alphabetic; otherwise when it has at most 3 words and starts
\* with an uppercase character
C21_StructuralName ==
    AtStructuralStep =>
        /\ NameShaped(Words(Strip(cur_line))) \/ AllAlphabetic(Words(Strip(cur_line)))
               => cur_class = "name"
        /\ ShortAndUpper(Words(Strip(cur_line))) => cur_class = "name"

\* C21 as amended: alphabetic words make a name only when there are at least 2
C21_StructuralNameOfTwoWords ==
    AtStructuralStep =>
        /\ \/ NameShaped(Words(Strip(cur_line)))
           \/ Len(Words(Strip(cur_line))) >= 2 /\ AllAlphabetic(Words(Strip(cur_line)))
               => cur_class = "name"
        /\ ShortAndUpper(Words(Strip(cur_line))) => cur_class = "name"

\* three words, the first in lower case and one not alphabetic, classified
\* 'name' for the suffix token among them
C21_Witness ==
    /\ AtStructuralStep /\ cur_class = "name"
    /\ Len(Words(Strip(cur_line))) = 3
    /\ Char(cur_line, 1) \in Lowers
    /\ ~AllAlphabetic(Words(Strip(cur_line)))
    /\ \E k \in 1..3 : Words(Strip(cur_line))[k] = "jr"

\* ------------------------------------------------------------------------
\* parse_contact called on the same card with its lines in another order
\* ------------------------------------------------------------------------

\* the orders of the lines q: every sequence that holds each position once
Orders(q) ==
    {[k \in 1..Len(q) |-> q[f[k]]] :
        f \in {g \in [1..Len(q) -> 1..Len(q)] :
                  \A i, j \in 1..Len(q) : g[i] = g[j] => i = j}}

\* cards with one name line, one title line and one company line, and a contact
\* line or none; the second name is a surname that is also a title keyword,
\* the second title holds a company indicator, the second company is a team
OrderCards ==
    {<<n, t, c>> \o x :
        n \in {"Jo Li", "John Developer"},
        t \in {"CEO", "Sales Group Lead"},
        c \in {"Ab Inc", "r2 team"},
        x \in {<<>>, <<"jo@ex.co">>, <<"555-123-4567">>}}

InitOrder ==
    /\ card_text \in {Join(q, "\n") : q \in OrderCards}
    /\ card_conf = NoneVal /\ hash_seed \in HashSeeds
    /\ calls = 0 /\ result = NoneVal /\ first = NoneVal
    /\ ClassifyIdle /\ SegIdle /\ OcrIdle /\ AppIdle

\* parse_contact called on the card read with its lines in another order
ParseReordered ==
    /\ calls = 1
    /\ card_text' \in {Join(q, "\n") : q \in Orders(SplitLines(card_text))}
    /\ result' = Some(ParseContact(card_text', card_conf, hash_seed))
    /\ calls' = 2
    /\ UNCHANGED <<card_conf, hash_seed, first, classVars, segVars, ocrVars,
                   procVars, batchVars, pstate, exportVars, scoreVars, keyVars>>

NextOrder == ParseContactCall \/ ParseReordered

SpecOrder == InitOrder /\ [][NextOrder]_vars

\* the lines of the card hold one line of each of the three classes
OneOfEachClass(raw_text) ==
    LET Once(classes) ==
            \A c \in {"name", "title", "company"} :
                Cardinality({k \in 1..Len(classes) : classes[k] = c}) = 1
        Classes(lines) == Once([k \in 1..Len(lines) |-> ClassifyLine(lines[k])])
    IN  Classes(SplitLines(raw_text))

\* C12: a card with exactly one name line, one title line and one company
\* line gives the same full_name, title and company in every order of its lines
C12_OrderIndependent ==
    calls = 2 /\ OneOfEachClass(card_text) =>
        /\ result[1].full_name = first[1].full_name
        /\ result[1].title = first[1].title
        /\ result[1].company = first[1].company

\* the card read with its company line first and its name line last, and
\* all three fields found
C12_Witness ==
    /\ calls = 2 /\ OneOfEachClass(card_text)
    /\ ClassifyLine(Head(SplitLines(card_text))) = "company"
    /\ ClassifyLine(SplitLines(card_text)[Len(SplitLines(card_text))]) = "name"
    /\ Truthy(result[1].full_name) /\ Truthy(result[1].title)
    /\ Truthy(result[1].company)

\* ------------------------------------------------------------------------
\* parse_contact statement by statement
\* ------------------------------------------------------------------------
\* pstate holds the position pc in parse_contact and its local variables:
\*   "start"       before line 272
\*   "cleaned"     after lines 272-284: structured_data and cleaned_lines are set
\*   "classified"  after line 287: classified_fields is set
\*   "validated"   after line 290: validated_fields is set
\*   "recovered"   after lines 293-308: fields holds full_name, title, company
\*                 and address as they are passed to Contact
\*   "done"        after line 321: contact is the record returned

NoFields == [full_name |-> NoneVal, title |-> NoneVal, company |-> NoneVal,
             address |-> NoneVal]

ParseEntry(raw_text, ocr_confidence) ==
    [pc |-> "start", raw_text |-> raw_text, ocr_confidence |-> ocr_confidence,
     structured_data |-> [emails |-> <<>>, phones |-> <<>>, website |-> NoneVal],
     cleaned_lines |-> <<>>, classified_fields |-> NoFields,
     validated_fields |-> NoFields, fields |-> NoFields, contact |-> NoneVal]

\* the lines a card is made of: a name, a title, a team, a title with a
\* company indicator, a company after "at", an address, a name that holds
\* the letters of "ave"
StageLines ==
    {"Jo Li", "CEO", "r2 team", "Sales Group", "at Ab Inc", "12 Ab St", "Dave Smith"}

\* the longest card, in lines
MaxStageLines == 3

\* the cards of test_title_recognition: a name, a line T with a title
\* keyword, a company and an e-mail address; the name is also spaced out; T
\* is a title, a name that is a title keyword, the name of the card once
\* more, and a title keyword that is a domain name
TitleCards ==
    {<<n, t, "Ab Inc", "jo@ex.co">> :
        n \in {"Jo Li", "Alice Manager", "Jo  Li"},
        t \in {"CEO", "Software Developer", "Sales Lead", "Alice Manager", "sales.io"}}

\* cards with a street address next to an e-mail address in one line
AddressCards ==
    {<<"Jo Li", "12 Ab St jo@ex.co">>, <<"12 Ab St", "12 Ab St jo@ex.co", "CEO">>,
     <<"at Ab Inc", "Sales Group", "9 Cd Ave, jo@ex.co">>}

StageTexts ==
    {Join(q, "\n") : q \in TitleCards \cup AddressCards \cup
                          UNION {[1..n -> StageLines] : n \in 0..MaxStageLines}}

InitStages ==
    /\ pstate \in {ParseEntry(t, NoneVal) : t \in StageTexts}
    /\ ClassifyIdle /\ ParseIdle /\ SegIdle /\ OcrIdle /\ ProcIdle /\ BatchIdle /\ ExportIdle
    /\ ScoreIdle /\ KeyIdle

StagesUnchanged ==
    UNCHANGED <<classVars, parseVars, segVars, ocrVars, procVars, batchVars, exportVars, scoreVars, keyVars>>

\* lines 272-284
ExtractStep ==
    /\ pstate.pc = "start"
    /\ \E sd \in {ExtractStructuredData(pstate.raw_text, hash_seed)} :
          pstate' = [pstate EXCEPT !.pc = "cleaned", !.structured_data = sd,
                        !.cleaned_lines = CleanedLines(SplitLines(pstate.raw_text), sd)]
    /\ StagesUnchanged

\* line 287
ClassifyStep ==
    /\ pstate.pc = "cleaned"
    /\ pstate' = [pstate EXCEPT !.pc = "classified",
                      !.classified_fields = SmartParseFields(pstate.cleaned_lines)]
    /\ StagesUnchanged

\* line 290
ValidateStep ==
    /\ pstate.pc = "classified"
    /\ pstate' = [pstate EXCEPT !.pc = "validated",
                      !.validated_fields =
                          ValidateFieldAssignments(pstate.classified_fields,
                                                   pstate.structured_data.emails,
                                                   pstate.structured_data.phones)]
    /\ StagesUnchanged

\* lines 293-308
RecoverStep ==
    /\ pstate.pc = "validated"
    /\ pstate' = [pstate EXCEPT !.pc = "recovered",
                      !.fields = RecoverAddress(pstate.validated_fields,
                                                pstate.cleaned_lines)]
    /\ StagesUnchanged

\* lines 321-330
BuildStep ==
    /\ pstate.pc = "recovered"
    /\ pstate' = [pstate EXCEPT !.pc = "done",
                      !.contact =
                          Some(Contact(pstate.fields.full_name, pstate.fields.title,
                                       pstate.fields.company,
                                       pstate.structured_data.emails,
                                       pstate.structured_data.phones,
                                       pstate.structured_data.website,
                                       pstate.fields.address, pstate.ocr_confidence))]
    /\ StagesUnchanged

NextStages == ExtractStep \/ ClassifyStep \/ ValidateStep \/ RecoverStep \/ BuildStep

SpecStages == InitStages /\ [][NextStages]_vars

\* the card is [a name line, T with a title keyword, a company line with a
\* company indicator, an e-mail address that EmailStr accepts]
IsTitleCard(p) ==
    LET Card(lines) ==
            /\ Len(lines) = 4
            /\ ClassifyLine(lines[1]) = "name"
            /\ ReSearch(TITLE_KEYWORDS, lines[2], TRUE)
            /\ ReSearch(COMPANY_INDICATORS, lines[3], TRUE)
            /\ ClassifyLine(lines[3]) = "company"
            /\ p.structured_data.emails = <<lines[4]>>
            /\ EmailStrValid(StrLower(lines[4]))
    IN  Card(SplitLines(p.raw_text))

TitleLineUsable(p) ==
    LET Usable(lines) == lines[2] # lines[1] /\ InSeq(lines[2], p.cleaned_lines)
    IN  Usable(SplitLines(p.raw_text))

LinesOfClass(p, c) == SelectSeq(p.cleaned_lines, LAMBDA l : ClassifyLine(l) = c)

\* C17 as stated: after the initial field selection full_name is the first
\* line classified name, and is unset when no line is classified name
C17_NameOnlyFromNameLine ==
    pstate.pc = "classified" =>
        pstate.classified_fields.full_name =
            IF LinesOfClass(pstate, "name") # <<>>
            THEN Some(LinesOfClass(pstate, "name")[1]) ELSE NoneVal

\* C17 as amended: full_name is the first line classified name; when no
\* line is classified name it is the first line of the card, and it is unset
\* only when the card has no line
C17_NameFromNameLineOrFirstLine ==
    pstate.pc = "classified" =>
        pstate.classified_fields.full_name =
            IF LinesOfClass(pstate, "name") # <<>>
            THEN Some(LinesOfClass(pstate, "name")[1])
            ELSE IF pstate.cleaned_lines # <<>> THEN Some(pstate.cleaned_lines[1])
            ELSE NoneVal

\* a card without a name line: its first line is the name
C17_Witness ==
    /\ pstate.pc = "classified"
    /\ pstate.cleaned_lines # <<>>
    /\ LinesOfClass(pstate, "name") = <<>>
    /\ pstate.classified_fields.full_name = Some(pstate.cleaned_lines[1])

\* the lines of the address the initial selection has put together
AddressLines(p) ==
    IF Truthy(p.classified_fields.address)
    THEN SplitOn(p.classified_fields.address[1], {"\n"}, TRUE, "") ELSE <<>>

\* the lines assigned to none of the fields a and b and of the address
UnusedLines(p, a, b) ==
    SelectSeq(p.cleaned_lines,
              LAMBDA l : Some(l) # a /\ Some(l) # b /\ ~InSeq(l, AddressLines(p)))

\* no line is classified title, and title is set: the positional fallback set it
TitleFilled(p) == LinesOfClass(p, "title") = <<>> /\ Truthy(p.classified_fields.title)

\* no line is classified company, and company is set: the positional fallback set it
CompanyFilled(p) == LinesOfClass(p, "company") = <<>> /\ Truthy(p.classified_fields.company)

\* the lines the fallback for title can take: assigned to none of name, company, address
UnusedForTitle(p) ==
    UnusedLines(p, p.classified_fields.full_name,
                IF LinesOfClass(p, "company") # <<>>
                THEN Some(LinesOfClass(p, "company")[1]) ELSE NoneVal)

\* the lines the fallback for company can take: assigned to none of name, title, address
UnusedForCompany(p) ==
    UnusedLines(p, p.classified_fields.full_name, p.classified_fields.title)

\* C18 as stated: the fallback fills title only when at least 2 lines are
\* unused and company only when at least 3 are, with the first unused line
C18_FallbackNeedsUnusedLines ==
    pstate.pc = "classified" =>
        /\ TitleFilled(pstate) =>
              /\ Len(UnusedForTitle(pstate)) >= 2
              /\ pstate.classified_fields.title = Some(UnusedForTitle(pstate)[1])
        /\ CompanyFilled(pstate) =>
              /\ Len(UnusedForCompany(pstate)) >= 3
              /\ pstate.classified_fields.company = Some(UnusedForCompany(pstate)[1])

\* C18 as amended: the fallback fills title only when the card has at least 2
\* lines and one of them is unused, and company only when the card has at
\* least 3 lines and one of them is unused, with the first unused line
C18_FallbackNeedsLines ==
    pstate.pc = "classified" =>
        /\ TitleFilled(pstate) =>
              /\ Len(pstate.cleaned_lines) >= 2
              /\ UnusedForTitle(pstate) # <<>>
              /\ pstate.classified_fields.title = Some(UnusedForTitle(pstate)[1])
        /\ CompanyFilled(pstate) =>
              /\ Len(pstate.cleaned_lines) >= 3
              /\ UnusedForCompany(pstate) # <<>>
              /\ pstate.classified_fields.company = Some(UnusedForCompany(pstate)[1])

\* a card of two lines, one of them unused: it is taken as the title
C18_Witness ==
    /\ pstate.pc = "classified"
    /\ TitleFilled(pstate)
    /\ Len(pstate.cleaned_lines) = 2
    /\ UnusedForTitle(pstate) = <<pstate.classified_fields.title[1]>>

\* title and company enter the validation pass set, title with a company
\* indicator and company without
TitleLooksLikeCompany(f) ==
    /\ Truthy(f.title) /\ Truthy(f.company)
    /\ ReSearch(COMPANY_INDICATORS, f.title[1], TRUE)
    /\ ~ReSearch(COMPANY_INDICATORS, f.company[1], TRUE)

\* C19 as stated: such a pair leaves the validation pass exchanged
C19_TitleCompanyExchanged ==
    pstate.pc = "validated" /\ TitleLooksLikeCompany(pstate.classified_fields) =>
        /\ pstate.validated_fields.company = pstate.classified_fields.title
        /\ pstate.validated_fields.title = pstate.classified_fields.company

\* C19 as amended: title leaves the pass as the former company, company as
\* the former title without its leading "at " or "@ "
C19_TitleCompanyExchangedAndCleaned ==
    pstate.pc = "validated" /\ TitleLooksLikeCompany(pstate.classified_fields) =>
        /\ pstate.validated_fields.company =
               CleanCompany([company |-> pstate.classified_fields.title]).company
        /\ pstate.validated_fields.title = pstate.classified_fields.company

\* a title that starts with "at " becomes the company, without the "at "
C19_Witness ==
    /\ pstate.pc = "validated" /\ TitleLooksLikeCompany(pstate.classified_fields)
    /\ pstate.classified_fields.title = Some("at Ab Inc")
    /\ pstate.validated_fields.company = Some("Ab Inc")
    /\ pstate.validated_fields.title = pstate.classified_fields.company

\* C20: the address recovered after the validation pass holds no line that
\* is the value of full_name, title or company
C20_RecoveredAddressUnused ==
    pstate.pc = "recovered" /\ ~Truthy(pstate.validated_fields.address)
                           /\ Truthy(pstate.fields.address) =>
        \A l \in {pstate.cleaned_lines[k] : k \in 1..Len(pstate.cleaned_lines)} :
            InSeq(l, SplitOn(pstate.fields.address[1], {"\n"}, TRUE, "")) =>
                /\ Some(l) # pstate.fields.full_name
                /\ Some(l) # pstate.fields.title
                /\ Some(l) # pstate.fields.company

\* C27: in the record parse_contact returns, the fields full_name, title and
\* company that are set hold pairwise different lines of the card
C27_FieldsHoldDifferentLines ==
    pstate.pc = "done" /\ ~pstate.contact[1].raised =>
        /\ Truthy(pstate.contact[1].full_name) =>
               /\ pstate.contact[1].full_name # pstate.contact[1].title
               /\ pstate.contact[1].full_name # pstate.contact[1].company
        /\ Truthy(pstate.contact[1].title) =>
               pstate.contact[1].title # pstate.contact[1].company

\* the fields as lines 176-216 leave them, before the address is looked at
BeforeAddressCheck(classified_fields, emails, phones) ==
    LET FixTitle(v) ==
            IF Truthy(v.title) THEN SplitTitle(SwapTitleCompany(v), v.title[1]) ELSE v
    IN  CleanCompany(FixTitle(PromoteName(classified_fields,
                                          emails # <<>> \/ phones # <<>>)))

\* C28: for the fields _smart_parse_fields returns in parse_contact, the
\* check of the address changes nothing: every line of address is classified
\* 'address' or 'other' again, address comes out as it went in, and title and
\* company stay what the earlier steps of the validation made them
C28_AddressCheckChangesNothing ==
    pstate.pc = "validated" /\ Truthy(pstate.classified_fields.address) =>
        /\ \A l \in {pstate.cleaned_lines[k] : k \in 1..Len(pstate.cleaned_lines)} :
               InSeq(l, SplitOn(pstate.classified_fields.address[1], {"\n"}, TRUE, "")) =>
                   ClassifyLine(l) \in {"address", "other"}
        /\ pstate.validated_fields.address = pstate.classified_fields.address
        /\ pstate.validated_fields =
               [BeforeAddressCheck(pstate.classified_fields,
                                   pstate.structured_data.emails,
                                   pstate.structured_data.phones)
                    EXCEPT !.address = pstate.classified_fields.address]

\* an address of two lines, the second one classified 'other' for its e-mail
\* address, on a card whose title is a line of its own
C28_Witness ==
    /\ pstate.pc = "validated"
    /\ pstate.classified_fields.address = Some("12 Ab St\n12 Ab St jo@ex.co")
    /\ ClassifyLine("12 Ab St jo@ex.co") = "other"
    /\ pstate.validated_fields.address = pstate.classified_fields.address
    /\ pstate.validated_fields.title = Some("CEO")

\* ------------------------------------------------------------------------
\* parse_contact called with a confidence from outside
\* ------------------------------------------------------------------------

\* confidences a caller passes, in thousandths: -0.5, 0.0, 0.8, 1.0, 1.5
Confidences == {-500, 0, 800, 1000, 1500}

InitConfidence ==
    /\ card_text \in TextsOf(CardLines, 1) \cup {BlankText}
    /\ card_conf \in {NoneVal} \cup {Some(c) : c \in Confidences}
    /\ hash_seed \in HashSeeds
    /\ calls = 0 /\ result = NoneVal /\ first = NoneVal
    /\ ClassifyIdle /\ SegIdle /\ OcrIdle /\ AppIdle

SpecConfidence == InitConfidence /\ [][ParseContactCall]_vars

\* C14: the ocr_confidence of every record parse_contact returns is absent
\* or lies in [0, 1]
C14_ConfidenceInUnitRange ==
    calls > 0 /\ ~result[1].raised =>
        \/ result[1].ocr_confidence = NoneVal
        \/ /\ result[1].ocr_confidence[1] >= 0
           /\ result[1].ocr_confidence[1] <= 1000

\* ------------------------------------------------------------------------
\* ocr.py: detect_card_contours
\* ------------------------------------------------------------------------
\* An image is [h, w, black, contours]: its size, whether every pixel of it is
\* 0, and the contours cv2.findContours returns on it, in that order. A
\* contour is the record of what the code measures on it:
\*   area              cv2.contourArea over the image's area, in thousandths
\*   vertices          len(cv2.approxPolyDP(cnt, 0.015 * peri))
\*   vertices_relaxed  len(cv2.approxPolyDP(cnt, 0.02 * peri))
\*   rect              <<width, height>> of cv2.minAreaRect, which is also the
\*                     size of the crop warped from the contour
\*   solidity          area over the area of the convex hull, in hundredths
\*   black             every pixel inside the contour is 0
\* A crop is [src, h, w, black]; src is the position of its contour in
\* contours, 0 for the full image.

Min(a, b) == IF a < b THEN a ELSE b
Max(a, b) == IF a < b THEN b ELSE a

\* target_ratios, in hundredths
TargetRatios == <<175, 155, 159>>

\* abs(ratio - target) / target <= tolerance, tolerance in hundredths
IsBusinessCardAspectRatio(width, height, tolerance) ==
    LET Near(mx, mn) ==
            \E k \in 1..Len(TargetRatios) :
                LET d == 100 * mx - TargetRatios[k] * mn
                IN  100 * (IF d < 0 THEN -d ELSE d) <= tolerance * TargetRatios[k] * mn
    IN  width # 0 /\ height # 0 /\ Near(Max(width, height), Min(width, height))

\* the positions of the contours that pass the geometric tests
FilterContoursByGeometry(contours) ==
    SelectSeq([k \in 1..Len(contours) |-> k],
              LAMBDA k : /\ contours[k].area > 15 /\ contours[k].area < 600
                         /\ contours[k].vertices >= 3 /\ contours[k].vertices <= 6
                         /\ IsBusinessCardAspectRatio(contours[k].rect[1],
                                                      contours[k].rect[2], 25)
                         /\ contours[k].solidity >= 85)

\* valid_contours.sort(key=cv2.contourArea, reverse=True): largest first,
\* contours of equal area in their original order
RECURSIVE SortByArea(_, _)
SortByArea(valid, contours) ==
    IF valid = <<>> THEN <<>>
    ELSE LET Insert(k, sorted) ==
                 SelectSeq(sorted, LAMBDA j : contours[j].area > contours[k].area)
                 \o <<k>>
                 \o SelectSeq(sorted, LAMBDA j : contours[j].area <= contours[k].area)
         IN  Insert(Head(valid), SortByArea(Tail(valid), contours))

\* the crop warped from the contour at position k
Warped(contours, k) ==
    [src |-> k, h |-> contours[k].rect[2], w |-> contours[k].rect[1],
     black |-> contours[k].black]

\* max_cards_to_process
MaxCardsToProcess == 5

\* lines 208-239: the crops of the largest valid contours
PrimaryCrops(contours) ==
    LET Crops(kept) == [i \in 1..Len(kept) |-> Warped(contours, kept[i])]
        Largest(sorted) == SubSeq(sorted, 1, Min(MaxCardsToProcess, Len(sorted)))
    IN  Crops(SelectSeq(Largest(SortByArea(FilterContoursByGeometry(contours), contours)),
                        LAMBDA k : /\ ~(contours[k].rect[2] < 100 \/ contours[k].rect[1] < 100)
                                   /\ IsBusinessCardAspectRatio(contours[k].rect[1],
                                                                contours[k].rect[2], 35)))

\* lines 242-265: the relaxed pass over all contours, in their order, up to
\* three crops; approx.reshape(4, 2) raises unless approx has 4 vertices
RelaxedCrops(contours) ==
    LET Crops(kept) == [i \in 1..Min(3, Len(kept)) |-> Warped(contours, kept[i])]
    IN  Crops(SelectSeq([k \in 1..Len(contours) |-> k],
                        LAMBDA k : /\ contours[k].area > 50 /\ contours[k].area < 800
                                   /\ contours[k].vertices_relaxed >= 4
                                   /\ contours[k].vertices_relaxed = 4
                                   /\ contours[k].rect[2] > 60 /\ contours[k].rect[1] > 60))

\* 0.8 < size_ratio < 1.2
SimilarSize(card, existing_card) ==
    /\ 8 * (existing_card.h * existing_card.w) < 10 * (card.h * card.w)
    /\ 10 * (card.h * card.w) < 12 * (existing_card.h * existing_card.w)

\* a loop that keeps every card
FilterNothing(card_images, filtered_cards) == filtered_cards \o card_images

\* lines 275-285: the loop over card_images[1:]
RECURSIVE FilterDuplicates(_, _)
FilterDuplicates(card_images, filtered_cards) ==
    IF card_images = <<>> THEN filtered_cards
    ELSE FilterDuplicates(
             Tail(card_images),
             IF \E k \in 1..Len(filtered_cards) :
                    SimilarSize(Head(card_images), filtered_cards[k])
             THEN filtered_cards
             ELSE Append(filtered_cards, Head(card_images)))

\* a result that keeps every card
LimitCardsKeepAll(filtered_cards) == filtered_cards

\* filtered_cards[:3]
LimitCards(filtered_cards) == SubSeq(filtered_cards, 1, Min(3, Len(filtered_cards)))

\* the image as a crop of its own
FullImage(image) == [src |-> 0, h |-> image.h, w |-> image.w, black |-> image.black]

\* a chain in which every pass runs and adds what it finds
DetectCardContoursEveryPass(image) ==
    LET Checked(card_images) ==
            IF Len(card_images) > 1
            THEN LimitCards(FilterDuplicates(Tail(card_images), <<Head(card_images)>>))
            ELSE card_images
    IN  Checked(PrimaryCrops(image.contours) \o RelaxedCrops(image.contours)
                \o <<FullImage(image)>>)

DetectCardContours(image) ==
    LET Checked(card_images) ==
            IF Len(card_images) > 1
            THEN LimitCards(FilterDuplicates(Tail(card_images), <<Head(card_images)>>))
            ELSE card_images
        WithFull(card_images) ==
            Checked(IF card_images = <<>> THEN <<FullImage(image)>> ELSE card_images)
        WithRelaxed(card_images) ==
            WithFull(IF card_images = <<>> THEN RelaxedCrops(image.contours)
                     ELSE card_images)
    IN  WithRelaxed(PrimaryCrops(image.contours))

\* contours found on a photo: four cards of different sizes, one of them
\* black; a square sheet; a ragged blob; a speck
ContourKinds ==
    {[area |-> 300, vertices |-> 4, vertices_relaxed |-> 4, rect |-> <<500, 300>>,
      solidity |-> 98, black |-> FALSE],
     [area |-> 120, vertices |-> 4, vertices_relaxed |-> 4, rect |-> <<330, 200>>,
      solidity |-> 97, black |-> FALSE],
     [area |-> 105, vertices |-> 5, vertices_relaxed |-> 4, rect |-> <<320, 190>>,
      solidity |-> 95, black |-> TRUE],
     [area |-> 55, vertices |-> 4, vertices_relaxed |-> 4, rect |-> <<220, 130>>,
      solidity |-> 96, black |-> FALSE],
     [area |-> 20, vertices |-> 4, vertices_relaxed |-> 4, rect |-> <<170, 100>>,
      solidity |-> 96, black |-> FALSE],
     [area |-> 180, vertices |-> 4, vertices_relaxed |-> 4, rect |-> <<300, 300>>,
      solidity |-> 99, black |-> FALSE],
     [area |-> 350, vertices |-> 9, vertices_relaxed |-> 7, rect |-> <<500, 400>>,
      solidity |-> 80, black |-> FALSE],
     [area |-> 5, vertices |-> 4, vertices_relaxed |-> 4, rect |-> <<60, 40>>,
      solidity |-> 90, black |-> FALSE]}

\* the most contours on a photo
MaxContours == 4

RECURSIVE SumArea(_)
SumArea(contours) ==
    IF contours = <<>> THEN 0 ELSE Head(contours).area + SumArea(Tail(contours))

\* photos whose contours fit in them, and a photo that is black all over
Images ==
    {[h |-> 600, w |-> 800, black |-> FALSE, contours |-> q] :
        q \in {c \in UNION {[1..n -> ContourKinds] : n \in 0..MaxContours} :
                  SumArea(c) <= 1000}}
    \cup {[h |-> 600, w |-> 800, black |-> TRUE, contours |-> <<>>]}

InitSeg ==
    /\ img \in {<<i>> : i \in Images} /\ cards = <<>>
    /\ ClassifyIdle /\ ParseIdle /\ OcrIdle /\ AppIdle

DetectCall ==
    /\ cards = <<>>
    /\ cards' = <<DetectCardContours(img[1])>>
    /\ UNCHANGED <<img, classVars, parseVars, ocrVars, procVars, batchVars, pstate, exportVars, scoreVars, keyVars>>

SpecSeg == InitSeg /\ [][DetectCall]_vars

\* C1: detect_card_contours returns at least 1 and at most 3 crops, whichever
\* of the primary pass, the relaxed pass or the full image produced them
C1_OneToThreeCrops == cards # <<>> => Len(cards[1]) >= 1 /\ Len(cards[1]) <= 3

\* three crops returned where the primary pass accepted four of different sizes
C1_Witness ==
    /\ cards # <<>>
    /\ Len(cards[1]) = 3
    /\ Len(PrimaryCrops(img[1].contours)) = 4
    /\ \A k \in 1..3 : cards[1][k].src # 0

\* every crop of cs is one of pool
CropsFrom(cs, pool) == \A k \in 1..Len(cs) : \E j \in 1..Len(pool) : cs[k] = pool[j]

\* C16: the crops returned come from the primary pass when it accepted a
\* crop; from the relaxed pass when only that pass accepted one; and are the
\* one crop of the whole image, unchanged, when neither did; the whole image
\* is in no result for which a pass accepted a crop
C16_FallbackChainOrdered ==
    cards # <<>> =>
        /\ PrimaryCrops(img[1].contours) # <<>> =>
               CropsFrom(cards[1], PrimaryCrops(img[1].contours))
        /\ PrimaryCrops(img[1].contours) = <<>> /\ RelaxedCrops(img[1].contours) # <<>> =>
               CropsFrom(cards[1], RelaxedCrops(img[1].contours))
        /\ PrimaryCrops(img[1].contours) = <<>> /\ RelaxedCrops(img[1].contours) = <<>> =>
               cards[1] = <<[src |-> 0, h |-> img[1].h, w |-> img[1].w,
                             black |-> img[1].black]>>
        /\ (\E k \in 1..Len(cards[1]) : cards[1][k].src = 0) =>
               PrimaryCrops(img[1].contours) = <<>> /\ RelaxedCrops(img[1].contours) = <<>>

\* a photo with contours of which neither pass accepts one: the whole image
\* is returned
C16_Witness ==
    /\ cards # <<>>
    /\ img[1].contours # <<>>
    /\ PrimaryCrops(img[1].contours) = <<>> /\ RelaxedCrops(img[1].contours) = <<>>
    /\ Len(cards[1]) = 1 /\ cards[1][1].src = 0

\* the first three contours with an area ratio in (0.05, 0.8) and a polygon
\* of 4 or more vertices, as crops
RelaxedByAreaAndVertices(contours) ==
    LET Crops(kept) == [i \in 1..Min(3, Len(kept)) |-> Warped(contours, kept[i])]
    IN  Crops(SelectSeq([k \in 1..Len(contours) |-> k],
                        LAMBDA k : /\ contours[k].area > 50 /\ contours[k].area < 800
                                   /\ contours[k].vertices_relaxed >= 4))

\* C25: in the relaxed retry every contour whose area ratio lies in
\* (0.05, 0.8) and whose polygon has at least 4 vertices is accepted as a
\* crop, in contour order, until 3 crops are accepted; what is returned is
\* the size check applied to those crops
C25_RelaxedAcceptsEveryPolygon ==
    cards # <<>> /\ PrimaryCrops(img[1].contours) = <<>> =>
        /\ RelaxedCrops(img[1].contours) = RelaxedByAreaAndVertices(img[1].contours)
        /\ RelaxedByAreaAndVertices(img[1].contours) # <<>> =>
               cards[1] = LimitCards(FilterDuplicates(
                              Tail(RelaxedByAreaAndVertices(img[1].contours)),
                              <<Head(RelaxedByAreaAndVertices(img[1].contours))>>))

\* the crops found before the size check
CropsFound(image) ==
    IF PrimaryCrops(image.contours) # <<>> THEN PrimaryCrops(image.contours)
    ELSE IF RelaxedCrops(image.contours) # <<>> THEN RelaxedCrops(image.contours)
    ELSE <<[src |-> 0, h |-> image.h, w |-> image.w, black |-> image.black]>>

\* kept is found with some crops left out, the first one kept
KeptInOrder(kept, found) ==
    /\ kept # <<>> /\ kept[1] = found[1]
    /\ \E f \in [1..Len(kept) -> 1..Len(found)] :
           /\ \A i \in 1..Len(kept) : kept[i] = found[f[i]]
           /\ \A i, j \in 1..Len(kept) : i < j => f[i] < f[j]

\* C26: of two returned crops the later one never has a pixel area strictly
\* between 0.8 and 1.2 times that of the earlier one; the first crop found is
\* kept, and the kept crops are in the order in which they were found
C26_NoTwoCropsOfSimilarSize ==
    cards # <<>> =>
        /\ \A i, j \in 1..Len(cards[1]) :
               i < j => ~(/\ 8 * (cards[1][i].h * cards[1][i].w)
                                < 10 * (cards[1][j].h * cards[1][j].w)
                          /\ 10 * (cards[1][j].h * cards[1][j].w)
                                < 12 * (cards[1][i].h * cards[1][i].w))
        /\ KeptInOrder(cards[1], CropsFound(img[1]))

\* four crops found, the second and the third within a tenth of each other in
\* size: the third is left out and the fourth kept
C26_Witness ==
    /\ cards # <<>>
    /\ Len(CropsFound(img[1])) = 4
    /\ cards[1] = <<CropsFound(img[1])[1], CropsFound(img[1])[2], CropsFound(img[1])[4]>>

\* ------------------------------------------------------------------------
\* ocr.py: _calculate_ocr_confidence, deskew_image, ocr_image
\* ------------------------------------------------------------------------
\* A confidence is a double. It is modelled by an integer that keeps the
\* order of the doubles the code can compute: 1000 times the nominal value,
\* less one for each unit in the last place by which the double falls short
\* of it (0.5 + 0.1 + 0.1 + 0.1 is 0.7999999999999999, modelled by 799).

\* <<a, b, a + b>> for the sums of doubles the code computes
FloatSums ==
    {<<500, 200, 700>>,
     <<500, 100, 600>>, <<600, 100, 700>>, <<700, 100, 799>>, <<799, 100, 899>>,
     <<899, 100, 999>>,
     <<500, -200, 300>>, <<600, -200, 399>>, <<700, -200, 499>>, <<799, -200, 599>>,
     <<899, -200, 700>>, <<999, -200, 798>>}

FloatAdd(a, b) == (CHOOSE t \in FloatSums : t[1] = a /\ t[2] = b)[3]

\* the characters of '@.-()'
ContactSymbols == {"@", ".", "-", "(", ")"}

\* the number of characters of s that are not in cs
CountNotIn(s, cs) == Cardinality({i \in 1..Len(s) : Char(s, i) \notin cs})

\* a score that looks at the length of the text only
CalculateOcrConfidenceByLength(text, img_shape) ==
    LET Score(text_clean) ==
            IF Len(text_clean) < 5 THEN 200
            ELSE IF 10 <= Len(text_clean) /\ Len(text_clean) <= 200 THEN FloatAdd(500, 200)
            ELSE 500
    IN  IF Strip(text) = "" THEN 0 ELSE Score(Strip(text))

\* img_shape only enters char_density, which the result does not use
CalculateOcrConfidence(text, img_shape) ==
    LET Penalised(text_clean, confidence) ==
            IF 10 * CountNotIn(text_clean, Alphas \cup Digits \cup {" "}) > 3 * Len(text_clean)
            THEN FloatAdd(confidence, -200) ELSE confidence
        Symbols(text_clean, confidence) ==
            Penalised(text_clean,
                      IF HasChar(text_clean, ContactSymbols)
                      THEN FloatAdd(confidence, 100) ELSE confidence)
        Numbers(text_clean, confidence) ==
            Symbols(text_clean,
                    IF HasChar(text_clean, Digits) THEN FloatAdd(confidence, 100)
                    ELSE confidence)
        Letters(text_clean, confidence) ==
            Numbers(text_clean,
                    IF HasChar(text_clean, Alphas) THEN FloatAdd(confidence, 100)
                    ELSE confidence)
        Score(text_clean) ==
            IF Len(text_clean) < 5 THEN 200
            ELSE Min(1000, Max(0,
                     Letters(text_clean,
                             IF 10 <= Len(text_clean) /\ Len(text_clean) <= 200
                             THEN FloatAdd(500, 200) ELSE 500)))
    IN  IF Strip(text) = "" THEN 0 ELSE Score(Strip(text))

\* len(enhanced_versions) and len(ocr_configs)
NumVariants == 5
NumConfigs == 5

\* What Tesseract does on a crop is [first, switch, then, plain]: the
\* (variant, mode) attempts, numbered 1..25 with the variants in the outer
\* loop, yield first up to attempt switch and then afterwards; the plain pass
\* yields plain. What an attempt yields is <<>> when pytesseract raises and
\* <<text>> when it returns text.
TessOutcome(t, n) == IF n <= t.switch THEN t.first ELSE t.then

\* an attempt that also replaces a pair of the same confidence
RetainLatest(best, outcome, img_shape) ==
    LET Better(confidence) ==
            IF confidence >= best.confidence
            THEN [text |-> outcome[1], confidence |-> confidence]
            ELSE best
    IN  IF outcome = <<>> THEN best
        ELSE Better(CalculateOcrConfidence(outcome[1], img_shape))

\* lines 406-420: one attempt; best is [text, confidence]
Retain(best, outcome, img_shape) ==
    LET Better(confidence) ==
            IF confidence > best.confidence
            THEN [text |-> outcome[1], confidence |-> confidence]
            ELSE best
    IN  IF outcome = <<>> THEN best
        ELSE Better(CalculateOcrConfidence(outcome[1], img_shape))

\* lines 401-420: the attempts from attempt n on
RECURSIVE Attempts(_, _, _, _)
Attempts(t, n, best, img_shape) ==
    IF n > NumVariants * NumConfigs THEN best
    ELSE Attempts(t, n + 1, Retain(best, TessOutcome(t, n), img_shape), img_shape)

\* a plain pass that runs whatever the attempts retained
PlainPassAlways(t, best, img_shape) == Retain(best, t.plain, img_shape)

\* lines 422-435: the plain pass
PlainPass(t, best, img_shape) ==
    IF best.confidence < 300 THEN Retain(best, t.plain, img_shape) ELSE best

\* deskew_image: np.where(gray > 0) of a crop with no pixel above 0 is
\* empty, and cv2.minAreaRect of an empty point set raises or returns a
\* zero rectangle, depending on the OpenCV build
DeskewRaises(card, rejects_empty) == card.black /\ rejects_empty

OcrImage(card, t, rejects_empty) ==
    LET Best(best) ==
            [raised |-> FALSE, text |-> best.text, confidence |-> best.confidence]
    IN  IF DeskewRaises(card, rejects_empty)
        THEN [raised |-> TRUE, text |-> "", confidence |-> 0]
        ELSE Best(PlainPass(t,
                            Attempts(t, 1, [text |-> "", confidence |-> 0],
                                     <<card.h, card.w>>),
                            <<card.h, card.w>>))

\* what Tesseract yields where there is no text to recognise: an error or
\* white space
BlankOutcomes == {<<>>, <<"">>, <<" \n">>}

\* and where there is text: also a fragment, a line in two readings, a whole card
TextOutcomes == {<<>>, <<"">>, <<"Jo">>, <<"Jo Li">>, <<"Al Li">>, <<"Jo Li\njo@ex.co">>}

TessRuns(outcomes) ==
    [first : outcomes, switch : 0..(NumVariants * NumConfigs), then : outcomes,
     plain : outcomes]

\* a printed card, an empty sheet, and a crop that is black all over
InitOcr ==
    /\ \E c \in {[src |-> 1, h |-> 300, w |-> 500, black |-> FALSE, blank |-> FALSE],
                   [src |-> 2, h |-> 300, w |-> 300, black |-> FALSE, blank |-> TRUE],
                   [src |-> 0, h |-> 600, w |-> 800, black |-> TRUE, blank |-> TRUE]} :
           /\ crop = <<c>>
           /\ tess \in {<<t>> : t \in TessRuns(IF c.blank THEN BlankOutcomes
                                                 ELSE TextOutcomes)}
    /\ cv_rejects_empty \in BOOLEAN
    /\ ocr_result = <<>>
    /\ ClassifyIdle /\ ParseIdle /\ SegIdle /\ AppIdle

OcrImageCall ==
    /\ ocr_result = <<>>
    /\ ocr_result' = <<OcrImage(crop[1], tess[1], cv_rejects_empty)>>
    /\ UNCHANGED <<crop, tess, cv_rejects_empty, classVars, parseVars, segVars,
                   procVars, batchVars, pstate, exportVars, scoreVars, keyVars>>

SpecOcr == InitOcr /\ [][OcrImageCall]_vars

\* Tesseract yields nothing but errors or white space
NothingRecognised(t) == {t.first, t.then, t.plain} \subseteq BlankOutcomes

AfterLoops(t, card) == Attempts(t, 1, [text |-> "", confidence |-> 0], <<card.h, card.w>>)

\* the attempts that did not throw
Yielding(t) == {n \in 1..(NumVariants * NumConfigs) : TessOutcome(t, n) # <<>>}

\* the score of attempt n
ScoreOf(t, n) == CalculateOcrConfidence(TessOutcome(t, n)[1], <<0, 0>>)

\* attempt n is the earliest of the attempts with the highest score, and
\* best is its pair
EarliestBest(t, n, best) ==
    /\ TessOutcome(t, n)[1] = best.text
    /\ ScoreOf(t, n) = best.confidence
    /\ \A k \in Yielding(t) :
          /\ ScoreOf(t, k) <= best.confidence
          /\ k < n => ScoreOf(t, k) < best.confidence

\* the call went through the loops: deskew_image did not raise
LoopsDone == ocr_result # <<>> /\ ~ocr_result[1].raised

\* C22 as stated: the pair retained after the loops is that of the earliest
\* attempt with the highest score among the attempts that did not throw
C22_EarliestBestRetained ==
    LoopsDone /\ Yielding(tess[1]) # {} =>
        \E n \in Yielding(tess[1]) :
            EarliestBest(tess[1], n, AfterLoops(tess[1], crop[1]))

\* C22 as amended: so it is when an attempt scores above 0.0; when none
\* does, the pair retained is the empty text with confidence 0.0
C22_EarliestPositiveBestRetained ==
    LoopsDone /\ Yielding(tess[1]) # {} =>
        IF \E n \in Yielding(tess[1]) : ScoreOf(tess[1], n) > 0
        THEN \E n \in Yielding(tess[1]) :
                 EarliestBest(tess[1], n, AfterLoops(tess[1], crop[1]))
        ELSE AfterLoops(tess[1], crop[1]) = [text |-> "", confidence |-> 0]

\* two readings of the same score, one after the other: the first is retained
C22_Witness ==
    /\ LoopsDone
    /\ tess[1].first = <<"Jo Li">> /\ tess[1].then = <<"Al Li">>
    /\ tess[1].switch \in 1..(NumVariants * NumConfigs - 1)
    /\ AfterLoops(tess[1], crop[1]).text = "Jo Li"
    /\ ocr_result[1].text = "Jo Li"

\* what the one plain pass leaves in r of the pair before it
PlainPassEffect(before, plain, r) ==
    LET Ran(yields) ==
            IF yields /\ CalculateOcrConfidence(plain[1], <<0, 0>>) > before.confidence
            THEN /\ r.text = plain[1]
                 /\ r.confidence = CalculateOcrConfidence(plain[1], <<0, 0>>)
            ELSE r = before
    IN  /\ r.confidence >= before.confidence
        /\ IF before.confidence < 300 THEN Ran(plain # <<>>) ELSE r = before

\* C24: the plain pass runs exactly when the best confidence after all the
\* attempts is below 0.3, and once; its text replaces the retained pair only
\* with a strictly higher score, so the returned confidence is never lower
\* than the best before the plain pass
C24_PlainPassBelowThreshold ==
    LoopsDone =>
        PlainPassEffect(AfterLoops(tess[1], crop[1]), tess[1].plain,
                        [text |-> ocr_result[1].text,
                         confidence |-> ocr_result[1].confidence])

\* the attempts retain a fragment at 0.2 and the plain pass reads the line
C24_Witness ==
    /\ LoopsDone
    /\ AfterLoops(tess[1], crop[1]) = [text |-> "Jo", confidence |-> 200]
    /\ tess[1].plain = <<"Jo Li">>
    /\ ocr_result[1].text = "Jo Li"
    /\ ocr_result[1].confidence > 300

\* ------------------------------------------------------------------------
\* _calculate_ocr_confidence called on a text
\* ------------------------------------------------------------------------

\* pieces of recognised text: a letter, a digit, a contact symbol, other
\* symbols, white space, a name, and two runs of 99 characters
TextPieces ==
    {"a", "1", "@", "####", " ", "\n", "Jo Li",
     "Jo Li CEO Ab Inc Jo Li CEO Ab Inc Jo Li CEO Ab Inc Jo Li CEO Ab Inc Jo Li CEO Ab Inc Jo Li CEO Ab I",
     "###################################################################################################"}
MaxPieces == 3
ScoredTexts == {Join(q, "") : q \in UNION {[1..k -> TextPieces] : k \in 0..MaxPieces}}

InitScore ==
    /\ score_text \in ScoredTexts /\ score = <<>>
    /\ ClassifyIdle /\ ParseIdle /\ SegIdle /\ OcrIdle /\ ProcIdle /\ BatchIdle
    /\ StagesIdle /\ ExportIdle /\ KeyIdle

\* one call of _calculate_ocr_confidence(text, img_shape)
ScoreCall ==
    /\ score = <<>>
    /\ score' = <<CalculateOcrConfidence(score_text, <<300, 500>>)>>
    /\ UNCHANGED <<score_text, classVars, parseVars, segVars, ocrVars, procVars,
                   batchVars, pstate, exportVars, keyVars>>

SpecScore == InitScore /\ [][ScoreCall]_vars

\* the characters of s that are in cs
CharsIn(s, cs) == {i \in 1..Len(s) : Char(s, i) \in cs}

\* the sum the rules give for a stripped text of 5 or more characters, in thousandths
RuleSum(t) ==
    500 + (IF Len(t) >= 10 /\ Len(t) <= 200 THEN 200 ELSE 0)
        + (IF CharsIn(t, Alphas) # {} THEN 100 ELSE 0)
        + (IF CharsIn(t, Digits) # {} THEN 100 ELSE 0)
        + (IF CharsIn(t, {"@", ".", "-", "(", ")"}) # {} THEN 100 ELSE 0)
        - (IF 10 * (Len(t) - Cardinality(CharsIn(t, Alphas \cup Digits \cup {" "})))
                > 3 * Len(t)
           THEN 200 ELSE 0)

\* C23: the score is 0.0 for a blank text, 0.2 for a stripped text under 5
\* characters, and otherwise the sum of the rules (0.5, +0.2 for a length in
\* [10, 200], +0.1 for each of letters, digits, contact symbols present, -0.2
\* for a ratio of other characters above 0.3) as double addition gives it,
\* which is at most two units in the last place below the sum; it lies in
\* [0, 1] and is at least 0.3 for a stripped text of 5 or more characters
C23_ConfidenceByRules ==
    score # <<>> =>
        /\ score[1] >= 0 /\ score[1] <= 1000
        /\ IF Strip(score_text) = "" THEN score[1] = 0
           ELSE IF Len(Strip(score_text)) < 5 THEN score[1] = 200
           ELSE /\ RuleSum(Strip(score_text)) - score[1] \in 0..2
                /\ score[1] >= 300

\* a text of more than 200 characters, most of them symbols: 0.5 + 0.1 - 0.2
C23_Witness ==
    /\ score # <<>>
    /\ Len(Strip(score_text)) > 200
    /\ RuleSum(Strip(score_text)) = 400
    /\ score[1] = 399

\* ------------------------------------------------------------------------
\* ocr.py: bytes_to_cv2, process_image_bytes
\* ------------------------------------------------------------------------
\* An uploaded file is [decodes_to, reads, unreadable]: decodes_to is <<>> when
\* cv2.imdecode returns None for the bytes and <<image>> otherwise; reads is
\* what Tesseract yields on a crop of the photo; unreadable is the src of the
\* crop on which every Tesseract call raises (-1: there is none). On a crop
\* that is black all over Tesseract yields the empty text.

BytesToCv2(file) == [raised |-> file.decodes_to = <<>>, img |-> file.decodes_to]

Always(outcome) == [first |-> outcome, switch |-> 0, then |-> outcome, plain |-> outcome]

TessOn(file, card) ==
    IF card.black THEN Always(<<"">>)
    ELSE IF card.src = file.unreadable THEN Always(<<>>)
    ELSE Always(file.reads)

\* lines 450-453: the loop over the crops, from the crops still to read
RECURSIVE OcrCards(_, _, _, _)
OcrCards(file, todo, rejects_empty, results) ==
    LET Read(r) ==
            IF r.raised THEN [raised |-> TRUE, results |-> <<>>]
            ELSE OcrCards(file, Tail(todo), rejects_empty,
                          Append(results, [card |-> Head(todo), text |-> r.text,
                                           confidence |-> r.confidence]))
    IN  IF todo = <<>> THEN [raised |-> FALSE, results |-> results]
        ELSE Read(OcrImage(Head(todo), TessOn(file, Head(todo)), rejects_empty))

ProcessImageBytes(file, rejects_empty) ==
    LET Decoded(d) ==
            IF d.raised THEN [raised |-> TRUE, results |-> <<>>]
            ELSE OcrCards(file, DetectCardContours(d.img[1]), rejects_empty, <<>>)
    IN  Decoded(BytesToCv2(file))

\* the most contours on an uploaded photo
MaxUploadContours == 3

\* what Tesseract reads on the cards of an uploaded photo
UploadReads == {<<"Jo Li\njo@ex.co">>, <<"jo@ex.co.">>, <<"">>}

Uploads ==
    {[decodes_to |-> <<>>, reads |-> <<"">>, unreadable |-> -1]}
    \cup [decodes_to : {<<i>> : i \in {j \in Images :
                                          Len(j.contours) <= MaxUploadContours}},
          reads : UploadReads, unreadable : {-1, 1, 2}]

InitProcess ==
    /\ upload \in {<<f>> : f \in Uploads} /\ proc_result = <<>>
    /\ cv_rejects_empty \in BOOLEAN
    /\ ClassifyIdle /\ ParseIdle /\ SegIdle /\ OcrUnused /\ BatchIdle /\ StagesIdle
    /\ ExportIdle /\ ScoreIdle /\ KeyIdle

ProcessCall ==
    /\ proc_result = <<>>
    /\ proc_result' = <<ProcessImageBytes(upload[1], cv_rejects_empty)>>
    /\ UNCHANGED <<upload, classVars, parseVars, segVars, ocrVars, batchVars, pstate, exportVars, scoreVars, keyVars>>

SpecProcess == InitProcess /\ [][ProcessCall]_vars

\* the crop fails: a step of its processing raises
CropFails(file, card, rejects_empty) ==
    DeskewRaises(card, rejects_empty) \/ TessOn(file, card) = Always(<<>>)

RECURSIVE CollectContacts(_, _, _, _, _)
CollectContacts(st, f, results, k, seed) ==
    LET Parsed(c) ==
            IF c.raised THEN [st EXCEPT !.crashed = TRUE]
            ELSE CollectContacts(
                     [st EXCEPT !.contacts =
                          Append(@, [file |-> f, card |-> k, text |-> results[k].text,
                                     confidence |-> results[k].confidence])],
                     f, results, k + 1, seed)
    IN  IF k > Len(results) THEN [st EXCEPT !.file_idx = f]
        ELSE Parsed(ParseContact(results[k].text, Some(results[k].confidence), seed))

\* a loop whose try statement does not catch the OCR failure
LoopBodyUncaught(st, file, rejects_empty, seed) ==
    LET Processed(r) ==
            IF r.raised THEN [st EXCEPT !.crashed = TRUE]
            ELSE CollectContacts(st, st.file_idx + 1, r.results, 1, seed)
    IN  Processed(ProcessImageBytes(file, rejects_empty))

\* lines 89-108: one pass of the loop body, for the file after st.file_idx
LoopBody(st, file, rejects_empty, seed) ==
    LET Processed(r) ==
            IF r.raised
            THEN [st EXCEPT !.errors = Append(@, st.file_idx + 1),
                            !.file_idx = st.file_idx + 1]
            ELSE CollectContacts(st, st.file_idx + 1, r.results, 1, seed)
    IN  Processed(ProcessImageBytes(file, rejects_empty))

ContourOfArea(a) == CHOOSE c \in ContourKinds : c.area = a

Photo(contours) == [h |-> 600, w |-> 800, black |-> FALSE, contours |-> contours]

\* files a user uploads: bytes that are no image; the photo of one card; a
\* photo of two cards, Tesseract failing on the smaller one; a photo that is
\* black all over; the photo of a card whose address ends a sentence
BatchFiles ==
    {[decodes_to |-> <<>>, reads |-> <<"">>, unreadable |-> -1],
     [decodes_to |-> <<Photo(<<ContourOfArea(300)>>)>>, reads |-> <<"Jo Li\njo@ex.co">>,
      unreadable |-> -1],
     [decodes_to |-> <<Photo(<<ContourOfArea(300), ContourOfArea(120)>>)>>,
      reads |-> <<"Jo Li\njo@ex.co">>, unreadable |-> 2],
     [decodes_to |-> <<[h |-> 600, w |-> 800, black |-> TRUE, contours |-> <<>>]>>,
      reads |-> <<"">>, unreadable |-> -1],
     [decodes_to |-> <<Photo(<<ContourOfArea(300)>>)>>, reads |-> <<"jo@ex.co.">>,
      unreadable |-> -1]}

\* the most files uploaded at once
MaxFiles == 3

InitBatch ==
    /\ uploaded_files \in UNION {[1..n -> BatchFiles] : n \in 1..MaxFiles}
    /\ file_idx = 0 /\ contacts = <<>> /\ errors = <<>> /\ crashed = FALSE
    /\ cv_rejects_empty \in BOOLEAN
    /\ ParseStart({""}) /\ card_conf = NoneVal
    /\ ClassifyIdle /\ SegIdle /\ OcrUnused /\ ProcIdle /\ StagesIdle
    /\ ExportIdle /\ ScoreIdle /\ KeyIdle

\* one pass of the loop over uploaded_files
NextFile ==
    /\ file_idx < Len(uploaded_files) /\ ~crashed
    /\ \E st \in {LoopBody([file_idx |-> file_idx, contacts |-> contacts,
                             errors |-> errors, crashed |-> crashed],
                            uploaded_files[file_idx + 1], cv_rejects_empty,
                            hash_seed)} :
          /\ file_idx' = st.file_idx
          /\ contacts' = st.contacts
          /\ errors' = st.errors
          /\ crashed' = st.crashed
    /\ UNCHANGED <<uploaded_files, classVars, parseVars, segVars, ocrVars, procVars,
                   pstate, exportVars, scoreVars, keyVars>>

SpecBatch == InitBatch /\ [][NextFile]_vars

\* the loop is at a file whose bytes do not decode
AtUndecodable ==
    /\ file_idx < Len(uploaded_files) /\ ~crashed
    /\ BytesToCv2(uploaded_files[file_idx + 1]).raised

\* C4: the pass of the loop over a file whose bytes do not decode reports the
\* error for that file, keeps the contacts collected so far and goes on to the
\* next file
C4_DecodeErrorPerFile ==
    [][AtUndecodable =>
          /\ errors' = Append(errors, file_idx + 1)
          /\ contacts' = contacts
          /\ file_idx' = file_idx + 1
          /\ crashed' = FALSE]_vars

\* three files gone through, the second one undecodable: its error is
\* reported, and the contacts of the first and of the third are collected
C4_Witness ==
    /\ file_idx = 3 /\ ~crashed
    /\ uploaded_files[2].decodes_to = <<>>
    /\ errors = <<2>>
    /\ {c.file : c \in {contacts[k] : k \in 1..Len(contacts)}} = {1, 3}

\* ------------------------------------------------------------------------
\* models.py: as_flat_dict; exporter.py: contacts_to_dataframe
\* ------------------------------------------------------------------------

\* the fields of Contact in the order of their declaration, which is the
\* order of the keys of model_dump()
ContactFields ==
    <<"full_name", "title", "company", "emails", "phones", "website", "address",
      "ocr_confidence">>

\* f"{value:.3f}" for a confidence: a double that falls short of a multiple
\* of 0.1 by one or two units in the last place is printed as that multiple
FormatFloat3(value) ==
    LET Digit(n) == Char(DigitStr, n + 1)
        Fixed(n) == Digit(n \div 1000) \o "." \o Digit((n \div 100) % 10)
                      \o Digit((n \div 10) % 10) \o Digit(n % 10)
        Signed(n) == IF n < 0 THEN "-" \o Fixed(0 - n) ELSE Fixed(n)
    IN  Signed(IF value % 100 \in {98, 99} THEN value + (100 - (value % 100)) ELSE value)

\* as_flat_dict: None as "", a list joined by "; ", a float with three
\* decimals, a string as it is
AsFlatDict(c) ==
    LET Str(value) == IF value = NoneVal THEN "" ELSE value[1]
    IN  [full_name |-> Str(c.full_name),
         title |-> Str(c.title),
         company |-> Str(c.company),
         emails |-> Join(c.emails, "; "),
         phones |-> Join(c.phones, "; "),
         website |-> Str(c.website),
         address |-> Str(c.address),
         ocr_confidence |-> IF c.ocr_confidence = NoneVal THEN ""
                            ELSE FormatFloat3(c.ocr_confidence[1])]

\* pd.DataFrame([c.as_flat_dict() for c in contacts]): the columns are the
\* keys of the dicts; a frame made from no dict has no column
ContactsToDataFrame(cs) ==
    [columns |-> IF cs = <<>> THEN <<>> ELSE ContactFields,
     rows |-> [k \in 1..Len(cs) |-> AsFlatDict(cs[k])]]

\* the two contacts of _sample_contacts, a contact with two addresses, two
\* phones and a confidence, and a contact with nothing set
SampleContacts ==
    {Contact(Some("Alice Smith"), Some("CEO"), Some("Wonder Works"), <<"alice@wonder.com">>,
             <<"+1 555 987 6543">>, Some("wonder.com"), NoneVal, NoneVal),
     Contact(Some("Bob Jones"), Some("CTO"), Some("Tech Corp"), <<"bob@techcorp.io">>,
             <<"+1 555 555 0000">>, NoneVal, NoneVal, NoneVal),
     Contact(Some("Jo Li"), NoneVal, NoneVal, <<"jo@ex.co", "al@ex.co">>,
             <<"555-123-4567", "(555) 123-4568">>, NoneVal, Some("12 Ab St"), Some(799)),
     Contact(NoneVal, NoneVal, NoneVal, <<>>, <<>>, NoneVal, NoneVal, NoneVal)}

\* the longest list of contacts exported
MaxExport == 3

InitExport ==
    /\ export_contacts \in UNION {[1..n -> SampleContacts] : n \in 0..MaxExport}
    /\ df = <<>>
    /\ ClassifyIdle /\ ParseIdle /\ SegIdle /\ OcrIdle /\ ProcIdle /\ BatchIdle /\ StagesIdle
    /\ ScoreIdle /\ KeyIdle

\* one call of contacts_to_dataframe(contacts)
ExportCall ==
    /\ df = <<>>
    /\ df' = Some(ContactsToDataFrame(export_contacts))
    /\ UNCHANGED <<export_contacts, classVars, parseVars, segVars, ocrVars, procVars,
                   batchVars, pstate, scoreVars, keyVars>>

SpecExport == InitExport /\ [][ExportCall]_vars

\* the columns test_contacts_to_dataframe expects
ExpectedColumns ==
    {"full_name", "title", "company", "emails", "phones", "website", "address"}

\* C15: the frame has one row per contact, in order, and exactly the columns
\* full_name, title, company, emails, phones, website and address; every
\* cell is the string of the field, a list joined by "; ", None as ""
C15_SevenColumnsOfStrings ==
    df # <<>> =>
        /\ Len(df[1].rows) = Len(export_contacts)
        /\ {df[1].columns[k] : k \in 1..Len(df[1].columns)} = ExpectedColumns
        /\ \A k \in 1..Len(export_contacts) :
              /\ df[1].rows[k].full_name =
                     IF Truthy(export_contacts[k].full_name)
                     THEN export_contacts[k].full_name[1] ELSE ""
              /\ df[1].rows[k].emails = Join(export_contacts[k].emails, "; ")
              /\ df[1].rows[k].phones = Join(export_contacts[k].phones, "; ")
              /\ df[1].rows[k].website =
                     IF Truthy(export_contacts[k].website)
                     THEN export_contacts[k].website[1] ELSE ""

\* ------------------------------------------------------------------------
\* utils/gpt_vision.py: validate_api_key
\* ------------------------------------------------------------------------
\* session_state is st.session_state as far as validate_api_key uses it: a
\* function from cache keys to the cached outcome. vstate is the call in
\* progress, with pc one of
\*   "ready"     no call yet
\*   "client"    before OpenAI(**client_config), line 398
\*   "list"      before client.models.list() of the attempt, line 406
\*   "retrieve"  before client.models.retrieve("gpt-3.5-turbo"), line 426
\*   "handle"    in the outer except clause with the error, line 452
\*   "returned"  the top-level call has returned result
\* and with the counts of the top-level call: lists (models.list attempts),
\* network (network calls), reentries; inv_lists and sleeps (seconds slept,
\* in order) are those of the current invocation. verdicts records, for
\* each outcome written to the cache, the key that was checked.

\* the keys a user enters: none, one of another form, two that agree in
\* their first 20 characters, one of its own
ApiKeys ==
    {"", "pk-test", "sk-proj-Ab12Cd34Ef56Gh78", "sk-proj-Ab12Cd34Ef56Zz99",
     "sk-live-Qr55St66Uv77"}

\* str(e) of what models.list raises: authentication, rate limit, quota,
\* connection
ErrorMessages ==
    {"Error code: 401 - invalid_api_key", "Error code: 429 - rate_limit_exceeded",
     "Error code: 429 - insufficient_quota", "Connection error."}

\* str(e) of what OpenAI(**client_config) raises where it takes no proxies
ClientError == "Client.__init__() got an unexpected keyword argument 'proxies'"

\* f"api_key_valid_{api_key[:20]}..."
CacheKey(api_key) ==
    "api_key_valid_" \o SubSeq(api_key, 1, Min(20, Len(api_key))) \o "..."

\* error_msg = str(e).lower(), for each of the errors above and for none
error_msg == [e \in ErrorMessages \cup {ClientError, ""} |-> StrLower(e)]

\* "rate_limit" in error_msg or "quota" in error_msg
IsRateLimit(e) == IsSubstr("rate_limit", error_msg[e]) \/ IsSubstr("quota", error_msg[e])

\* "timeout" in error_msg or "connection" in error_msg
IsConnection(e) == IsSubstr("timeout", error_msg[e]) \/ IsSubstr("connection", error_msg[e])

max_retries == 3
base_delay == 1

\* a delay that does not grow
DelayConstant(attempt) == base_delay

\* base_delay * (2 ** attempt), in seconds
Delay(attempt) == base_delay * 2^attempt

\* st.session_state[cache_key] = outcome
Store(state, cache_key, outcome) ==
    [k \in DOMAIN state \cup {cache_key} |-> IF k = cache_key THEN outcome ELSE state[k]]

NewCall(api_key) ==
    [pc |-> "ready", api_key |-> api_key, fallback_method |-> FALSE, attempt |-> 0,
     error |-> "", sleeps |-> <<>>, inv_lists |-> 0, lists |-> 0, network |-> 0,
     reentries |-> 0, result |-> FALSE, from_cache |-> FALSE]

\* lines 373-381: the start of an invocation
Enter(v, state) ==
    IF v.api_key = "" \/ SubSeq(v.api_key, 1, Min(3, Len(v.api_key))) # "sk-"
    THEN [v EXCEPT !.pc = "returned", !.result = FALSE]
    ELSE IF CacheKey(v.api_key) \in DOMAIN state
    THEN [v EXCEPT !.pc = "returned", !.result = state[CacheKey(v.api_key)],
                   !.from_cache = TRUE]
    ELSE [v EXCEPT !.pc = "client", !.attempt = 0, !.sleeps = <<>>, !.inv_lists = 0]

InitKeys ==
    /\ session_state = <<>> /\ vstate = NewCall("") /\ verdicts = {}
    /\ ClassifyIdle /\ ParseIdle /\ SegIdle /\ OcrIdle /\ ProcIdle /\ BatchIdle
    /\ StagesIdle /\ ExportIdle /\ ScoreIdle

KeysUnchanged ==
    UNCHANGED <<classVars, parseVars, segVars, ocrVars, procVars, batchVars, pstate,
                exportVars, scoreVars>>

\* validate_api_key(api_key) called from the page
ValidateCall ==
    /\ vstate.pc \in {"ready", "returned"}
    /\ \E k \in ApiKeys : vstate' = Enter(NewCall(k), session_state)
    /\ UNCHANGED <<session_state, verdicts>>
    /\ KeysUnchanged

\* lines 384-398
ClientOk ==
    /\ vstate.pc = "client"
    /\ vstate' = [vstate EXCEPT !.pc = "list"]
    /\ UNCHANGED <<session_state, verdicts>>
    /\ KeysUnchanged

ClientRaises ==
    /\ vstate.pc = "client"
    /\ vstate' = [vstate EXCEPT !.pc = "handle", !.error = ClientError]
    /\ UNCHANGED <<session_state, verdicts>>
    /\ KeysUnchanged

\* lines 406-409
ListOk ==
    /\ vstate.pc = "list"
    /\ session_state' = Store(session_state, CacheKey(vstate.api_key), TRUE)
    /\ verdicts' = verdicts \cup {<<vstate.api_key, TRUE>>}
    /\ vstate' = [vstate EXCEPT !.pc = "returned", !.result = TRUE,
                                !.inv_lists = @ + 1, !.lists = @ + 1, !.network = @ + 1]
    /\ KeysUnchanged

\* lines 410-436: models.list raises e
ListRaises ==
    /\ vstate.pc = "list"
    /\ \E e \in ErrorMessages :
          LET Counted(v) == [v EXCEPT !.error = e, !.inv_lists = @ + 1, !.lists = @ + 1,
                                      !.network = @ + 1]
          IN  vstate' =
                  IF IsRateLimit(e) /\ vstate.attempt < max_retries - 1
                  THEN [Counted(vstate) EXCEPT !.sleeps = Append(@, Delay(vstate.attempt)),
                                               !.attempt = @ + 1]
                  ELSE IF ~vstate.fallback_method /\ IsRateLimit(e)
                  THEN [Counted(vstate) EXCEPT !.pc = "retrieve"]
                  ELSE [Counted(vstate) EXCEPT !.pc = "handle"]
    /\ UNCHANGED <<session_state, verdicts>>
    /\ KeysUnchanged

\* lines 424-428
RetrieveOk ==
    /\ vstate.pc = "retrieve"
    /\ session_state' = Store(session_state, CacheKey(vstate.api_key), TRUE)
    /\ verdicts' = verdicts \cup {<<vstate.api_key, TRUE>>}
    /\ vstate' = [vstate EXCEPT !.pc = "returned", !.result = TRUE, !.network = @ + 1]
    /\ KeysUnchanged

\* lines 429-436: retrieve raises too, and the error of models.list is raised
RetrieveRaises ==
    /\ vstate.pc = "retrieve"
    /\ vstate' = [vstate EXCEPT !.pc = "handle", !.network = @ + 1]
    /\ UNCHANGED <<session_state, verdicts>>
    /\ KeysUnchanged

\* lines 452-490: the outer except clause
HandleError ==
    /\ vstate.pc = "handle"
    /\ IF ~vstate.fallback_method /\ IsConnection(vstate.error)
       THEN /\ vstate' = Enter([vstate EXCEPT !.fallback_method = TRUE,
                                              !.reentries = @ + 1],
                               session_state)
            /\ UNCHANGED <<session_state, verdicts>>
       ELSE /\ vstate' = [vstate EXCEPT !.pc = "returned", !.result = FALSE]
            /\ IF ~IsRateLimit(vstate.error)
               THEN /\ session_state' =
                           Store(session_state, CacheKey(vstate.api_key), FALSE)
                    /\ verdicts' = verdicts \cup {<<vstate.api_key, FALSE>>}
               ELSE UNCHANGED <<session_state, verdicts>>
    /\ KeysUnchanged

\* a step of the call in progress
ValidateProgress ==
    \/ ClientOk \/ ClientRaises \/ ListOk \/ ListRaises \/ RetrieveOk \/ RetrieveRaises
    \/ HandleError

NextKeys == ValidateCall \/ ValidateProgress

SpecKeys == InitKeys /\ [][NextKeys]_vars

\* every network call returns or raises (timeout 30 s) and time.sleep ends
FairSpecKeys == SpecKeys /\ WF_vars(ValidateProgress)

\* C29: the result returned for a key depends only on checks made for that
\* key: an outcome returned from the cache was cached by a check of the same
\* key, it is returned without a network call, and after a failure with a
\* rate limit or quota error nothing is cached
C29_CacheKeptPerKey ==
    vstate.pc = "returned" =>
        /\ vstate.from_cache =>
               /\ <<vstate.api_key, vstate.result>> \in verdicts
               /\ vstate.network = 0
        /\ ~vstate.from_cache /\ ~vstate.result /\ IsRateLimit(vstate.error) =>
               CacheKey(vstate.api_key) \notin DOMAIN session_state

\* C30: a call always returns True or False; an invocation makes at most 3
\* models.list attempts and sleeps 1 s, then 2 s between rate-limited
\* attempts; the call re-enters itself in fallback mode at most once and so
\* makes at most 6 models.list attempts
C30_TerminatesWithinSixAttempts ==
    /\ [](/\ vstate.pc = "returned" => vstate.result \in BOOLEAN
          /\ vstate.inv_lists <= 3
          /\ vstate.sleeps \in {<<>>, <<1>>, <<1, 2>>}
          /\ vstate.reentries <= 1
          /\ vstate.lists <= 6)
    /\ (vstate.pc \in {"client", "list", "retrieve", "handle"}) ~> (vstate.pc = "returned")

\* two rate-limited attempts and a lost connection, then the same again in
\* fallback mode
C30_Witness ==
    /\ vstate.pc = "returned"
    /\ ~vstate.result
    /\ vstate.lists = 6 /\ vstate.reentries = 1
    /\ vstate.sleeps = <<1, 2>>

====
